---------------------------- MODULE Spec2Model ----------------------------
(***************************************************************************)
(* JD <-> resume match agent: the analysis orchestrator analyzeJDResume    *)
(* (src/src/agent.ts) with its model-response extraction, score clamp,     *)
(* skill correction and the deterministic fallback analysis built on       *)
(* fallbackParseSkills (src/src/tools/local_parser.ts).                    *)
(*                                                                         *)
(* Strings are sequences of one-character strings, so that toLowerCase,    *)
(* includes and trim are computed character by character as the JavaScript *)
(* built-ins compute them.                                                 *)
(***************************************************************************)
EXTENDS Integers, Sequences, FiniteSets, TLC

(***************************************************************************)
(* Bounds of the model.                                                    *)
(***************************************************************************)
\* most entries the matched_skills and missing_skills arrays of the model's
\* JSON hold together
MaxSkills == 2
\* most text pieces the streamed response is made of
MaxPieces == 2

(***************************************************************************)
(* JavaScript string built-ins.                                            *)
(***************************************************************************)
UpperChars == <<"A","B","C","D","E","F","G","H","I","J","K","L","M",
                "N","O","P","Q","R","S","T","U","V","W","X","Y","Z">>
LowerChars == <<"a","b","c","d","e","f","g","h","i","j","k","l","m",
                "n","o","p","q","r","s","t","u","v","w","x","y","z">>
WhiteSpace == {" ", "\t", "\n"}

toLowerChar(ch) ==
  IF \E i \in DOMAIN UpperChars : UpperChars[i] = ch
  THEN LowerChars[CHOOSE i \in DOMAIN UpperChars : UpperChars[i] = ch]
  ELSE ch

\* String.prototype.toLowerCase
toLowerCase(s) == SubSeq([i \in 1..Len(s) |-> toLowerChar(s[i])], 1, Len(s))

\* String.prototype.includes: t occurs in s as a contiguous substring
includes(s, t) ==
  \E i \in 0..(Len(s) - Len(t)) : SubSeq(s, i + 1, i + Len(t)) = t

\* String.prototype.trim
trim(s) ==
  LET keep == {i \in 1..Len(s) : s[i] \notin WhiteSpace}
  IN  IF keep = {} THEN <<>>
      ELSE LET lo == CHOOSE i \in keep : \A j \in keep : i <= j
               hi == CHOOSE i \in keep : \A j \in keep : j <= i
           IN  SubSeq(s, lo, hi)

\* Array.prototype.slice(from, to) with 0-based from and exclusive to
slice(a, from, to) ==
  SubSeq(a, from + 1, IF to < Len(a) THEN to ELSE Len(a))

\* Array.prototype.includes
arrayIncludes(a, x) == \E i \in DOMAIN a : a[i] = x

Max(a, b) == IF a >= b THEN a ELSE b
Min(a, b) == IF a <= b THEN a ELSE b

(***************************************************************************)
(* src/src/tools/local_parser.ts                                           *)
(***************************************************************************)
candidates ==
  << <<"j","a","v","a">>,
     <<"p","y","t","h","o","n">>,
     <<"c","+","+">>,
     <<"c">>,
     <<"g","o">>,
     <<"j","a","v","a","s","c","r","i","p","t">>,
     <<"t","y","p","e","s","c","r","i","p","t">>,
     <<"r","e","a","c","t">>,
     <<"n","o","d","e">>,
     <<"d","e","n","o">>,
     <<"s","q","l">>,
     <<"p","o","s","t","g","r","e","s">>,
     <<"m","o","n","g","o","d","b">>,
     <<"r","u","s","t">>,
     <<"d","o","c","k","e","r">>,
     <<"k","u","b","e","r","n","e","t","e","s">>,
     <<"a","w","s">>,
     <<"g","c","p">>,
     <<"a","z","u","r","e">>,
     <<"m","l">>,
     <<"m","a","c","h","i","n","e"," ","l","e","a","r","n","i","n","g">>,
     <<"n","l","p">>,
     <<"g","r","a","p","h","q","l">>,
     <<"r","e","s","t">>,
     <<"g","i","t">>,
     <<"l","i","n","u","x">>,
     <<"c","i","/","c","d">> >>

\* fallbackParseSkills: the candidates found in the lowercased text, in the
\* order of the candidates list (a Set keeps insertion order, and the list
\* holds no entry twice)
fallbackParseSkills(text) ==
  LET lower == toLowerCase(text)
  IN  SelectSeq(candidates, LAMBDA s : includes(lower, s))

(***************************************************************************)
(* Input texts of an analysis: job descriptions and resumes.               *)
(***************************************************************************)
JdScenario ==
  <<"S","e","n","i","o","r"," ","e","n","g","i","n","e","e","r"," ","n","e","e","d","s"," ","P","y","t","h","o","n",","," ","D","o","c","k","e","r">>
JdNeeds ==
  <<"n","e","e","d","s"," ","P","y","t","h","o","n">>
JdMany ==
  <<"J","a","v","a"," ","R","u","s","t"," ","A","W","S"," ","G","C","P"," ","S","Q","L">>
JdPerks ==
  <<"g","r","e","a","t"," ","b","e","n","e","f","i","t","s">>
JdLower ==
  <<"p","y","t","h","o","n"," ","a","n","d"," ","d","o","c","k","e","r">>
ResumeScenario ==
  <<"5"," ","y","e","a","r","s"," ","P","y","t","h","o","n"," ","e","x","p","e","r","i","e","n","c","e">>
ResumeLead ==
  <<"P","y","t","h","o","n"," ","d","e","v">>
ResumeOther ==
  <<"R","u","s","t",","," ","S","Q","L">>
ResumeUpper ==
  <<"d","o","c","k","e","r"," ","P","Y","T","H","O","N"," ","b","e","n","e","f","i","t","s">>

JobTexts == {JdScenario, JdNeeds, JdMany, JdPerks, JdLower, <<>>}
ResumeTexts == {ResumeScenario, ResumeLead, ResumeOther, ResumeUpper, <<>>}

(***************************************************************************)
(* Skill strings the model's JSON may list.                                *)
(***************************************************************************)
SkPython == <<"P","y","t","h","o","n">>
SkSpacePython == <<" ","p","y","t","h","o","n">>
SkDocker == <<"D","o","c","k","e","r">>
SkBenefits == <<"b","e","n","e","f","i","t","s">>
SkEmpty == <<>>
SkillPool == {SkPython, SkSpacePython, SkDocker, SkBenefits, SkEmpty}

(***************************************************************************)
(* JSON values.  A value is a record [t, v]: t is its JSON type ("absent"  *)
(* when the object has no such field).  Numbers are kept in tenths, so     *)
(* that 85.5 is a value distinct from 85 and 86.                           *)
(***************************************************************************)
JsonAbsent == [t |-> "absent", v |-> 0]
JsonNull == [t |-> "null", v |-> 0]
JsonBool(b) == [t |-> "boolean", v |-> IF b THEN 1 ELSE 0]
JsonNumber(tenths) == [t |-> "number", v |-> tenths]
\* a string holding a decimal numeral, such as "85"
JsonNumeral(tenths) == [t |-> "numeral", v |-> tenths]
\* a non-empty string that is no numeral, such as "high"
JsonWord == [t |-> "word", v |-> 0]
JsonEmptyString == [t |-> "emptyString", v |-> 0]
JsonObject == [t |-> "object", v |-> 0]

ScoreValues ==
  { JsonAbsent, JsonNull, JsonBool(TRUE), JsonBool(FALSE), JsonWord,
    JsonEmptyString, JsonObject, JsonNumeral(850) }
  \cup { JsonNumber(n) : n \in {-50, 0, 5, 850, 855, 1000, 1400} }

\* a JavaScript number: NaN, or a value in tenths
NaN == [nan |-> TRUE, tenths |-> 0]
Num(tenths) == [nan |-> FALSE, tenths |-> tenths]

\* the values for which `x || 0` yields 0
falsy(j) ==
  \/ j.t \in {"absent", "null", "emptyString"}
  \/ j.t = "boolean" /\ j.v = 0
  \/ j.t = "number" /\ j.v = 0

\* ToNumber, the coercion Math.max applies to its arguments
ToNumber(j) ==
  CASE j.t \in {"number", "numeral"} -> Num(j.v)
    [] j.t = "boolean" -> Num(10 * j.v)
    [] j.t \in {"null", "emptyString"} -> Num(0)
    [] OTHER -> NaN

MathMax(a, b) == IF a.nan \/ b.nan THEN NaN ELSE Num(Max(a.tenths, b.tenths))
MathMin(a, b) == IF a.nan \/ b.nan THEN NaN ELSE Num(Min(a.tenths, b.tenths))

\* a mutant of clampScore: the upper cap is forgotten
clampScoreNoCap(score) ==
  MathMax(Num(0), IF falsy(score) THEN Num(0) ELSE ToNumber(score))

\* Math.min(100, Math.max(0, parsedJson.score || 0))
clampScore(score) ==
  MathMin(Num(1000),
          MathMax(Num(0), IF falsy(score) THEN Num(0) ELSE ToNumber(score)))

\* Math.round(num / den) for num >= 0, den > 0: halves round up
MathRound(num, den) == (2 * num + den) \div (2 * den)

(***************************************************************************)
(* Skill lists of the model's JSON: an array of strings (v), an array      *)
(* holding an entry that is no string, a value that is no array, or no     *)
(* field at all.                                                           *)
(***************************************************************************)
SkillArray(a) == [t |-> "array", v |-> a]
SkillArrayNonString == [t |-> "arrayNonString", v |-> <<>>]
SkillNotArray == [t |-> "notArray", v |-> <<>>]
SkillAbsent == [t |-> "absent", v |-> <<>>]

SkillLists == UNION { [1..n -> SkillPool] : n \in 0..MaxSkills }
SkillListPairs ==
  { p \in SkillLists \X SkillLists : Len(p[1]) + Len(p[2]) <= MaxSkills }

(***************************************************************************)
(* Skill correction, agent.ts lines 173-222.                               *)
(***************************************************************************)
nonTechnicalTerms ==
  << <<"c","o","m","p","e","t","i","t","i","v","e"," ","s","a","l","a","r","i","e","s">>,
     <<"b","e","n","e","f","i","t","s">>,
     <<"b","e","n","e","f","i","t","s"," ","p","a","c","k","a","g","e">>,
     <<"s","a","l","a","r","y">>,
     <<"c","o","m","p","e","n","s","a","t","i","o","n">>,
     <<"a","c","t","i","v","e"," ","s","t","a","r","t","u","p"," ","p","o","s","i","t","i","o","n","s">>,
     <<"s","t","a","r","t","u","p">>,
     <<"f","u","l","l","-","t","i","m","e">>,
     <<"p","a","r","t","-","t","i","m","e">>,
     <<"r","e","m","o","t","e">>,
     <<"y","e","a","r","s"," ","o","f"," ","e","x","p","e","r","i","e","n","c","e">>,
     <<"e","x","p","e","r","i","e","n","c","e">>,
     <<"d","e","g","r","e","e">>,
     <<"b","a","c","h","e","l","o","r">>,
     <<"m","a","s","t","e","r">>,
     <<"c","o","m","m","u","n","i","c","a","t","i","o","n">>,
     <<"t","e","a","m","w","o","r","k">>,
     <<"c","o","l","l","a","b","o","r","a","t","i","o","n">>,
     <<"p","r","o","b","l","e","m","-","s","o","l","v","i","n","g">>,
     <<"t","e","s","t","i","n","g">>,
     <<"c","o","m","p","a","n","y"," ","c","u","l","t","u","r","e">>,
     <<"c","u","l","t","u","r","e">>,
     <<"l","o","c","a","t","i","o","n">>,
     <<"r","e","l","o","c","a","t","i","o","n">>,
     <<"v","i","s","a"," ","s","p","o","n","s","o","r","s","h","i","p">> >>

\* nonTechnicalTerms.some(term => skillLower.includes(term))
isNonTechnical(skillLower) ==
  \E i \in DOMAIN nonTechnicalTerms : includes(skillLower, nonTechnicalTerms[i])

\* .map(skill => skill.trim()).filter(skill => skill.length > 0)
trimAndDropEmpty(list) ==
  SelectSeq([i \in 1..Len(list) |-> trim(list[i])], LAMBDA s : Len(s) > 0)

\* the filter callback of matched_skills (lines 187-195)
keepMatched(skill, jdLower, resumeLower) ==
  LET skillLower == toLowerCase(skill)
  IN  /\ ~isNonTechnical(skillLower)
      /\ includes(jdLower, skillLower)
      /\ includes(resumeLower, skillLower)

\* lines 186-197
filterMatched(list, jdLower, resumeLower) ==
  trimAndDropEmpty(SelectSeq(list, LAMBDA s : keepMatched(s, jdLower, resumeLower)))

\* the filter callback of missing_skills run over the list in order (lines
\* 201-220); `matched` is parsedJson.matched_skills, which the callback
\* pushes to, and `kept` the entries the filter has kept so far
RECURSIVE filterMissing(_, _, _, _, _)
filterMissing(list, matched, kept, jdLower, resumeLower) ==
  IF list = <<>> THEN [matched |-> matched, kept |-> kept]
  ELSE
    LET skill == Head(list)
        skillLower == toLowerCase(skill)
    IN  IF isNonTechnical(skillLower)
        THEN filterMissing(Tail(list), matched, kept, jdLower, resumeLower)
        ELSE IF ~includes(jdLower, skillLower)
        THEN filterMissing(Tail(list), matched, kept, jdLower, resumeLower)
        ELSE IF includes(resumeLower, skillLower)
        THEN filterMissing(
               Tail(list),
               IF \E i \in DOMAIN matched : toLowerCase(matched[i]) = skillLower
               THEN matched ELSE Append(matched, skill),
               kept, jdLower, resumeLower)
        ELSE filterMissing(Tail(list), matched, Append(kept, skill),
                           jdLower, resumeLower)

\* lines 182-222: the corrected matched_skills and missing_skills
correctSkills(matchedIn, missingIn, jdText, resumeText) ==
  LET resumeLower == toLowerCase(resumeText)
      jdLower == toLowerCase(jdText)
      matched == filterMatched(matchedIn, jdLower, resumeLower)
      r == filterMissing(missingIn, matched, <<>>, jdLower, resumeLower)
  IN  [matched_skills |-> r.matched,
       missing_skills |-> trimAndDropEmpty(r.kept)]

(***************************************************************************)
(* Suggestions and summaries.  A string built from a template is the       *)
(* record of its template and of the values interpolated into it; a        *)
(* string written by the model is a record with no interpolated value.     *)
(***************************************************************************)
Text(template, args) == [template |-> template, args |-> args]
ModelText == Text("(written by the model)", <<>>)

SuggestionArray(a) == [t |-> "array", v |-> a]
SuggestionValues ==
  { [t |-> "absent", v |-> <<>>], [t |-> "notArray", v |-> <<>>],
    [t |-> "arrayNonString", v |-> <<>>] }
  \cup { SuggestionArray([i \in 1..n |-> ModelText]) : n \in {0, 3, 6} }

SummaryString(args) == [t |-> "string", v |-> args]
SummaryValues ==
  { SummaryString(<<>>), [t |-> "absent", v |-> <<>>], [t |-> "number", v |-> <<>>] }

(***************************************************************************)
(* The deterministic fallback analysis.  agent.ts builds it at two places: *)
(* after extraction found nothing usable (lines 239-270) and in the        *)
(* outermost catch (lines 273-304).                                        *)
(***************************************************************************)
\* a mutant of fallbackSuggestions: the generic suggestion is forgotten
fallbackSuggestionsNoGeneric(matched, missing) ==
  LET s1 == IF Len(missing) > 0
            THEN << Text("Add experience or projects demonstrating: ",
                         slice(missing, 0, 3)) >>
            ELSE <<>>
      s3 == IF Len(matched) > 0
            THEN << Text("Emphasize your experience with: ",
                         slice(matched, 0, 3)) >>
            ELSE <<>>
  IN  s1 \o s3

\* lines 248-261
fallbackSuggestions(matched, missing) ==
  LET s1 == IF Len(missing) > 0
            THEN << Text("Add experience or projects demonstrating: ",
                         slice(missing, 0, 3)) >>
            ELSE <<>>
      s2 == IF Len(missing) > 3
            THEN << Text("Consider highlighting transferable skills related to: ",
                         slice(missing, 3, 5)) >>
            ELSE <<>>
      s3 == IF Len(matched) > 0
            THEN << Text("Emphasize your experience with: ",
                         slice(matched, 0, 3)) >>
            ELSE <<>>
      s == s1 \o s2 \o s3
  IN  IF Len(s) = 0
      THEN << Text("Review the job description and ensure all key requirements are clearly highlighted in your resume", <<>>) >>
      ELSE s

\* a mutant of fallbackAnalysis: the score is truncated instead of rounded
fallbackAnalysisTruncated(jdText, resumeText) ==
  LET jdSkills == fallbackParseSkills(jdText)
      resumeSkills == fallbackParseSkills(resumeText)
      matched == SelectSeq(jdSkills, LAMBDA s : arrayIncludes(resumeSkills, s))
      missing == SelectSeq(jdSkills, LAMBDA s : ~arrayIncludes(resumeSkills, s))
      score == (Len(matched) * 100) \div Max(1, Len(jdSkills))
  IN  [score |-> Num(10 * score),
       matched_skills |-> matched,
       missing_skills |-> missing,
       suggestions |-> SuggestionArray(fallbackSuggestions(matched, missing)),
       short_summary |-> SummaryString(<<score, Len(matched), Len(missing)>>)]

\* lines 239-270
fallbackAnalysis(jdText, resumeText) ==
  LET jdSkills == fallbackParseSkills(jdText)
      resumeSkills == fallbackParseSkills(resumeText)
      matched == SelectSeq(jdSkills, LAMBDA s : arrayIncludes(resumeSkills, s))
      missing == SelectSeq(jdSkills, LAMBDA s : ~arrayIncludes(resumeSkills, s))
      score == MathRound(Len(matched) * 100, Max(1, Len(jdSkills)))
  IN  [score |-> Num(10 * score),
       matched_skills |-> matched,
       missing_skills |-> missing,
       suggestions |-> SuggestionArray(fallbackSuggestions(matched, missing)),
       short_summary |-> SummaryString(<<score, Len(matched), Len(missing)>>)]

\* a mutant of catchFallbackAnalysis: the outer catch reports no suggestions
\* about the missing skills
catchFallbackAnalysisTerse(jdText, resumeText) ==
  LET r == fallbackAnalysis(jdText, resumeText)
  IN  [r EXCEPT !.suggestions =
         SuggestionArray(fallbackSuggestions(r.matched_skills, <<>>))]

\* lines 276-303, the copy of the fallback analysis in the outermost catch
catchFallbackAnalysis(jdText, resumeText) ==
  LET jdSkills == fallbackParseSkills(jdText)
      resumeSkills == fallbackParseSkills(resumeText)
      matched == SelectSeq(jdSkills, LAMBDA s : arrayIncludes(resumeSkills, s))
      missing == SelectSeq(jdSkills, LAMBDA s : ~arrayIncludes(resumeSkills, s))
      score == MathRound(Len(matched) * 100, Max(1, Len(jdSkills)))
      s1 == IF Len(missing) > 0
            THEN << Text("Add experience or projects demonstrating: ",
                         slice(missing, 0, 3)) >>
            ELSE <<>>
      s2 == IF Len(missing) > 3
            THEN << Text("Consider highlighting transferable skills related to: ",
                         slice(missing, 3, 5)) >>
            ELSE <<>>
      s3 == IF Len(matched) > 0
            THEN << Text("Emphasize your experience with: ",
                         slice(matched, 0, 3)) >>
            ELSE <<>>
      s == s1 \o s2 \o s3
      suggestions ==
        IF Len(s) = 0
        THEN << Text("Review the job description and ensure all key requirements are clearly highlighted in your resume", <<>>) >>
        ELSE s
  IN  [score |-> Num(10 * score),
       matched_skills |-> matched,
       missing_skills |-> missing,
       suggestions |-> SuggestionArray(suggestions),
       short_summary |-> SummaryString(<<score, Len(matched), Len(missing)>>)]

(***************************************************************************)
(* The object the model's response text parses to.                         *)
(***************************************************************************)
\* reply: "absent", "plain" (a string without "(error)"), "errorEscaped" (a
\* string whose JSON text hides "(error)" behind an escape), "number"
ReplyValues == {"absent", "plain", "errorEscaped", "number"}

BaseObject ==
  [reply |-> "absent",
   score |-> JsonNumber(700),
   matched_skills |-> SkillArray(<<>>),
   missing_skills |-> SkillArray(<<>>),
   suggestions |-> SuggestionArray(<<ModelText, ModelText, ModelText>>),
   short_summary |-> SummaryString(<<>>)]

SkillShapes == {SkillArray(<<>>), SkillArrayNonString, SkillNotArray, SkillAbsent}

\* The objects the model may answer: every score value with the skill lists
\* of the clamp scenario, every pair of skill lists, every shape of the
\* skill fields, every shape of suggestions and summary, every reply.
ModelObjects ==
  { [reply |-> "absent", score |-> s,
     matched_skills |-> SkillArray(<<SkPython>>),
     missing_skills |-> SkillArray(<<SkPython>>),
     suggestions |-> [t |-> "absent", v |-> <<>>],
     short_summary |-> [t |-> "absent", v |-> <<>>]] : s \in ScoreValues }
  \cup { [BaseObject EXCEPT !.matched_skills = SkillArray(p[1]),
                            !.missing_skills = SkillArray(p[2])] :
           p \in SkillListPairs }
  \cup { [BaseObject EXCEPT !.matched_skills = a, !.missing_skills = b] :
           a \in SkillShapes, b \in SkillShapes }
  \cup { [BaseObject EXCEPT !.suggestions = g, !.short_summary = m] :
           g \in SuggestionValues, m \in SummaryValues }
  \cup { [BaseObject EXCEPT !.reply = r] : r \in ReplyValues }

NoObject == [BaseObject EXCEPT !.reply = "(no object)"]

NoResult ==
  [score |-> NaN, matched_skills |-> <<>>, missing_skills |-> <<>>,
   suggestions |-> [t |-> "absent", v |-> <<>>],
   short_summary |-> [t |-> "absent", v |-> <<>>]]

(***************************************************************************)
(* Extraction, agent.ts lines 139-237.  The response text is a sequence of *)
(* pieces: "prose" (no brace, no "error"), "errorWord" (text containing    *)
(* "error"), "object" (a brace span that is the JSON text of an object)    *)
(* and "brokenObject" (a brace span JSON.parse rejects).                   *)
(***************************************************************************)
TextPieces == {"prose", "errorWord", "object", "brokenObject"}

null == [ok |-> FALSE, value |-> NoResult]
Parsed(r) == [ok |-> TRUE, value |-> r]

\* lines 161-229: what `parsed` is after JSON.parse returned parsedJson
validateAndCorrect(parsedJson, jdText, resumeText) ==
  IF parsedJson.reply = "number" THEN null          \* reply.includes throws
  ELSE IF parsedJson.reply = "errorEscaped" THEN null
  ELSE IF /\ parsedJson.score.t # "absent"
          /\ parsedJson.matched_skills.t \in {"array", "arrayNonString"}
          /\ parsedJson.missing_skills.t \in {"array", "arrayNonString"}
  THEN
    IF \/ parsedJson.matched_skills.t = "arrayNonString"
       \/ parsedJson.missing_skills.t = "arrayNonString"
    THEN null                                        \* skill.toLowerCase throws
    ELSE
      LET c == correctSkills(parsedJson.matched_skills.v,
                             parsedJson.missing_skills.v, jdText, resumeText)
      IN  Parsed([score |-> clampScore(parsedJson.score),
                  matched_skills |-> c.matched_skills,
                  missing_skills |-> c.missing_skills,
                  suggestions |-> parsedJson.suggestions,
                  short_summary |-> parsedJson.short_summary])
  ELSE null

\* lines 142-160: the span of the text handed to JSON.parse: "none" when
\* the text holds "error", is empty or has no brace span, else its first
\* brace span
jsonMatch(text) ==
  LET spans == {i \in DOMAIN text : text[i] \in {"object", "brokenObject"}}
  IN  IF \E i \in DOMAIN text : text[i] = "errorWord" THEN "none"
      ELSE IF spans = {} THEN "none"
      ELSE text[CHOOSE i \in spans : \A j \in spans : i <= j]

\* lines 161-232: `parsed` once the span is matched, parsedJson being what
\* JSON.parse returns for an "object" span (it throws for any other)
extract(jsonStr, parsedJson, jdText, resumeText) ==
  IF jsonStr = "object"
  THEN validateAndCorrect(parsedJson, jdText, resumeText)
  ELSE null

(***************************************************************************)
(* Credentials, agent.ts lines 12-30.                                      *)
(***************************************************************************)
GroqBaseUrl == "https://api.groq.com/openai/v1"

\* getProviderFromEnv: the environment it leaves and whether it throws
getProviderFromEnv(e) ==
  IF e.GROQ_API_KEY
  THEN [env |-> [e EXCEPT !.OPENAI_BASE_URL = GroqBaseUrl], throws |-> FALSE]
  ELSE [env |-> [e EXCEPT !.OPENAI_BASE_URL = "unset"],
        throws |-> ~e.OPENAI_API_KEY]

(***************************************************************************)
(* The events of the task stream, agent.ts lines 98-115.                   *)
(***************************************************************************)
\* content blocks of a message event: isString is `typeof b.text === "string"`
ContentBlocks ==
  { [type |-> "text", isString |-> TRUE, text |-> "prose"],
    [type |-> "text", isString |-> TRUE, text |-> "object"],
    [type |-> "text", isString |-> FALSE, text |-> "prose"],
    [type |-> "tool_use", isString |-> TRUE, text |-> "prose"] }

MessageContents == UNION { [1..n -> ContentBlocks] : n \in 0..MaxPieces }

\* the text a message event carries: the text of its text blocks, first
\* block first; a block of another type, or without a text, has none
RECURSIVE textOfBlocks(_)
textOfBlocks(blocks) ==
  IF blocks = <<>> THEN <<>>
  ELSE (IF Head(blocks).type = "text" /\ Head(blocks).isString
        THEN <<Head(blocks).text>> ELSE <<>>) \o textOfBlocks(Tail(blocks))

\* a mutant of messageText: the blocks of every type are read
messageTextAnyType(blocks) ==
  [i \in 1..Len(blocks) |-> blocks[i].text]

\* the text a message event adds to resultText (lines 104-110)
messageText(blocks) ==
  LET texts == SelectSeq(blocks, LAMBDA b : b.type = "text" /\ b.isString)
  IN  [i \in 1..Len(texts) |-> texts[i].text]

\* exceptions the provider call raises: API errors carry a status
ProviderErrors ==
  {"status401", "status429quota", "status429", "status500", "transport"}

(***************************************************************************)
(* State.                                                                  *)
(***************************************************************************)
VARIABLES
  env,          \* process environment: the credentials and OPENAI_BASE_URL
  jdText,       \* the job text of the requests
  resumeText,   \* the resume text of the requests
  pc,           \* where analyzeJDResume stands
  resultText,   \* the text accumulated from the stream
  jsonStr,      \* the span of the text matched for JSON.parse
  outcome,      \* how the model call of this request ended
  parsedJson,   \* what JSON.parse returned, NoObject if it was not reached
  result,       \* the value analyzeJDResume returned
  site,         \* where the returned value was built
  thrown,       \* analyzeJDResume threw to its caller
  fallbackSeen, \* the fallback results returned so far for these texts, each
                \* with the site that built it
  arrived       \* history: the text the events of this stream carried, in
                \* arrival order

\* the state of a job search (searchAndRankJobs)
VARIABLES
  TAVILY_API_KEY,   \* the search credential is configured
  preferences,      \* the preferences of the request
  pcSearch,         \* where searchAndRankJobs stands
  backendQuery,     \* the query searchJobs built for the search API
  fetched,          \* how the call to the search API ended
  response,         \* data.results of the search API's answer
  searchResults,    \* what searchJobs returned
  filteredResults,  \* the results left by the job-board filter
  jobsWithScores,   \* the jobs pushed by the scoring loop
  searchReturn,     \* the value searchAndRankJobs returned
  scoringCalls      \* history: for each analyzeJDResume call of the scoring
                    \* loop, its candidate and what the page fetch gave

\* the state of a cover letter request (generateCoverLetter)
VARIABLES
  pcLetter,     \* where generateCoverLetter stands
  letterText,   \* the pieces of text received from the stream, in order
  coverLetter   \* the text generateCoverLetter returned

\* the state of a resume strength request (analyzeResumeStrength)
VARIABLES
  pcStrength,     \* where analyzeResumeStrength stands
  strengthText,   \* the pieces of text received from the stream, in order
  failureReason,  \* why the AI analysis failed, "" while it has not
  strengthReturn  \* the value analyzeResumeStrength returned

analysisVars == <<env, jdText, resumeText, pc, resultText, jsonStr, outcome,
                  parsedJson, result, site, thrown, fallbackSeen, arrived>>
searchVars == <<TAVILY_API_KEY, preferences, pcSearch, backendQuery, fetched,
                response, searchResults, filteredResults, jobsWithScores,
                searchReturn, scoringCalls>>
letterVars == <<pcLetter, letterText, coverLetter>>
strengthVars == <<pcStrength, strengthText, failureReason, strengthReturn>>
\* the variables no step of analyzeJDResume touches
otherVars == <<searchVars, letterVars, strengthVars>>

vars == <<analysisVars, searchVars, letterVars, strengthVars>>

Environments ==
  [GROQ_API_KEY : BOOLEAN, OPENAI_API_KEY : BOOLEAN,
   OPENAI_BASE_URL : {"unset", "https://proxy.example/v1"}]

\* no job search is under way
SearchIdle ==
  /\ TAVILY_API_KEY = FALSE
  /\ preferences = [role |-> [t |-> "undefined", v |-> <<>>],
                    keywords |-> [t |-> "undefined", v |-> <<>>],
                    location |-> [t |-> "undefined", v |-> <<>>]]
  /\ pcSearch = "idle"
  /\ backendQuery = <<>>
  /\ fetched = "notCalled"
  /\ response = <<>>
  /\ searchResults = <<>>
  /\ filteredResults = <<>>
  /\ jobsWithScores = <<>>
  /\ scoringCalls = <<>>
  /\ searchReturn = [jobs |-> <<>>, totalFound |-> -1, searchQuery |-> <<>>]

\* no cover letter is being generated
LetterIdle ==
  /\ pcLetter = "idle"
  /\ letterText = <<>>
  /\ coverLetter = <<>>

\* no resume strength analysis is under way
StrengthIdle ==
  /\ pcStrength = "idle"
  /\ strengthText = <<>>
  /\ failureReason = ""
  /\ strengthReturn = [overall_score |-> NaN]

Init ==
  /\ env \in Environments
  /\ jdText \in JobTexts
  /\ resumeText \in ResumeTexts
  /\ pc = "idle"
  /\ resultText = <<>>
  /\ jsonStr = "none"
  /\ outcome = "none"
  /\ parsedJson = NoObject
  /\ result = NoResult
  /\ site = "none"
  /\ thrown = FALSE
  /\ fallbackSeen = {}
  /\ arrived = <<>>
  /\ SearchIdle
  /\ LetterIdle
  /\ StrengthIdle

(***************************************************************************)
(* analyzeJDResume, agent.ts lines 32-305.                                 *)
(***************************************************************************)
\* line 34: createZypherContext rejects
CreateContextThrows ==
  /\ pc = "idle"
  /\ pc' = "outerCatch"
  /\ outcome' = "contextError"
  /\ UNCHANGED <<env, jdText, resumeText, resultText, jsonStr, parsedJson,
                 result, site, thrown, fallbackSeen,
                 arrived, otherVars>>

\* lines 34-98: the provider is made from the environment, the model name
\* is chosen and the task is started
StartAnalysis ==
  /\ pc = "idle"
  /\ LET p == getProviderFromEnv(env)
     IN  /\ env' = p.env
         /\ IF p.throws
            THEN pc' = "outerCatch" /\ outcome' = "noCredential"
            ELSE IF ~p.env.GROQ_API_KEY /\ ~p.env.OPENAI_API_KEY
            THEN pc' = "innerCatch" /\ outcome' = "noCredential"
            ELSE pc' = "stream" /\ outcome' = "none"
  /\ resultText' = <<>>
  /\ arrived' = <<>>
  /\ UNCHANGED <<jdText, resumeText, jsonStr, parsedJson, result, site,
                 thrown, fallbackSeen,
                 otherVars>>

\* lines 101-102: a text event; content may be absent
OnTextEvent ==
  /\ pc = "stream"
  /\ \E content \in TextPieces \cup {"(absent)"} :
       LET added == IF content = "(absent)" THEN <<>> ELSE <<content>>
       IN  /\ Len(resultText) + Len(added) <= MaxPieces
           /\ resultText' = resultText \o added
           /\ arrived' = arrived \o added
  /\ UNCHANGED <<env, jdText, resumeText, pc, jsonStr, outcome, parsedJson,
                 result, site, thrown, fallbackSeen,
                 otherVars>>

\* lines 103-110: a message event
OnMessageEvent ==
  /\ pc = "stream"
  /\ \E blocks \in MessageContents :
       /\ Len(resultText) + Len(messageText(blocks)) <= MaxPieces
       /\ resultText' = resultText \o messageText(blocks)
       /\ arrived' = arrived \o textOfBlocks(blocks)
  /\ UNCHANGED <<env, jdText, resumeText, pc, jsonStr, outcome, parsedJson,
                 result, site, thrown, fallbackSeen,
                 otherVars>>

\* an event of any other type falls through the if-chain
OnOtherEvent ==
  /\ pc = "stream"
  /\ UNCHANGED vars

\* lines 111-114: an error event makes the loop throw
OnErrorEvent ==
  /\ pc = "stream"
  /\ pc' = "innerCatch"
  /\ outcome' = "errorEvent"
  /\ UNCHANGED <<env, jdText, resumeText, resultText, jsonStr, parsedJson,
                 result, site, thrown, fallbackSeen,
                 arrived, otherVars>>

\* the provider call fails: runTask or the stream throws
OnProviderError ==
  /\ pc = "stream"
  /\ \E e \in ProviderErrors : outcome' = e
  /\ pc' = "innerCatch"
  /\ UNCHANGED <<env, jdText, resumeText, resultText, jsonStr, parsedJson,
                 result, site, thrown, fallbackSeen,
                 arrived, otherVars>>

\* the stream completes
OnComplete ==
  /\ pc = "stream"
  /\ pc' = "extract"
  /\ outcome' = "completed"
  /\ UNCHANGED <<env, jdText, resumeText, resultText, jsonStr, parsedJson,
                 result, site, thrown, fallbackSeen,
                 arrived, otherVars>>

\* a mutant of InnerCatch: the text received before the failure is kept
InnerCatchKeepsText ==
  /\ pc = "innerCatch"
  /\ pc' = "extract"
  /\ arrived' = <<>>
  /\ UNCHANGED <<env, jdText, resumeText, resultText, jsonStr, outcome,
                 parsedJson, result, site, thrown, fallbackSeen,
                 otherVars>>

\* lines 116-137: the inner catch logs and clears the text
InnerCatch ==
  /\ pc = "innerCatch"
  /\ resultText' = <<>>
  /\ pc' = "extract"
  /\ arrived' = <<>>
  /\ UNCHANGED <<env, jdText, resumeText, jsonStr, outcome, parsedJson,
                 result, site, thrown, fallbackSeen,
                 otherVars>>

\* lines 139-160: the text is searched for a JSON object; resultText is not
\* read again
MatchJson ==
  /\ pc = "extract"
  /\ jsonStr' = jsonMatch(resultText)
  /\ resultText' = <<>>
  /\ pc' = "parse"
  /\ arrived' = <<>>
  /\ UNCHANGED <<env, jdText, resumeText, outcome, parsedJson, result, site,
                 thrown, fallbackSeen,
                 otherVars>>

\* lines 161-272: JSON.parse, validation, clamp and skill correction, the
\* fallback when nothing was parsed, return
ParseAndReturn ==
  /\ pc = "parse"
  /\ \E obj \in (IF jsonStr = "object" THEN ModelObjects ELSE {NoObject}) :
       LET parsed == extract(jsonStr, obj, jdText, resumeText)
       IN  /\ parsedJson' = obj
           /\ IF parsed.ok
              THEN /\ result' = parsed.value
                   /\ site' = "model"
                   /\ UNCHANGED fallbackSeen
              ELSE /\ result' = fallbackAnalysis(jdText, resumeText)
                   /\ site' = "fallback"
                   /\ fallbackSeen' = fallbackSeen \cup
                        {[site |-> "fallback", result |-> result']}
  /\ pc' = "done"
  /\ UNCHANGED <<env, jdText, resumeText, resultText, jsonStr, outcome,
                 thrown,
                 arrived, otherVars>>

\* a mutant of OuterCatch: the error is passed on to the caller
OuterCatchRethrows ==
  /\ pc = "outerCatch"
  /\ thrown' = TRUE
  /\ pc' = "done"
  /\ UNCHANGED <<env, jdText, resumeText, resultText, jsonStr, outcome,
                 parsedJson, result, site, fallbackSeen,
                 arrived, otherVars>>

\* lines 273-304: the outermost catch returns the fallback analysis
OuterCatch ==
  /\ pc = "outerCatch"
  /\ result' = catchFallbackAnalysis(jdText, resumeText)
  /\ site' = "catch"
  /\ fallbackSeen' = fallbackSeen \cup {[site |-> "catch", result |-> result']}
  /\ pc' = "done"
  /\ UNCHANGED <<env, jdText, resumeText, resultText, jsonStr, outcome,
                 parsedJson, thrown,
                 arrived, otherVars>>

\* the caller has its answer and sends the next request with the same texts
NextRequest ==
  /\ pc = "done"
  /\ ~thrown
  /\ pc' = "idle"
  /\ jsonStr' = "none"
  /\ outcome' = "none"
  /\ parsedJson' = NoObject
  /\ result' = NoResult
  /\ site' = "none"
  /\ UNCHANGED <<env, jdText, resumeText, resultText, thrown, fallbackSeen,
                 arrived, otherVars>>

Next ==
  \/ CreateContextThrows
  \/ StartAnalysis
  \/ OnTextEvent
  \/ OnMessageEvent
  \/ OnOtherEvent
  \/ OnErrorEvent
  \/ OnProviderError
  \/ OnComplete
  \/ InnerCatch
  \/ MatchJson
  \/ ParseAndReturn
  \/ OuterCatch
  \/ NextRequest

Spec == Init /\ [][Next]_vars

(***************************************************************************)
(* Job discovery and ranking: searchJobs, performWebSearch,                *)
(* extractJobContent and getMockJobResults (src/tools/job_search.ts, kept  *)
(* as src/unnamed/part_005) and searchAndRankJobs (src/src/agent.ts lines  *)
(* 333-504).                                                               *)
(***************************************************************************)
\* most results the search backend answers a query with
MaxResults == 4

\* program constants of the pipeline
searchLimit == 10
maxJobsToAnalyze == 3
minDescriptionLength == 200
maxDescriptionLength == 500
maxSnippetLength == 500
maxFilterContentLength == 1000

\* A value a JSON request body or a search result may hold where a string
\* is expected: a string, a number (v is its numeral), or nothing.
Str(s) == [t |-> "string", v |-> s]
NumberValue(numeral) == [t |-> "number", v |-> numeral]
undefined == [t |-> "undefined", v |-> <<>>]

\* ToBoolean of such a value, as `x || y` and `x ? a : b` apply it
truthy(x) ==
  \/ x.t = "string" /\ x.v # <<>>
  \/ x.t = "number" /\ x.v # <<"0">>

\* the text a template literal interpolates for the value
toText(x) == IF x.t = "undefined" THEN <<"u","n","d","e","f","i","n","e","d">>
               ELSE x.v

\* String.prototype.substring(0, n)
substring(s, n) == SubSeq(s, 1, Min(n, Len(s)))

\* String.prototype.endsWith
endsWith(s, t) == Len(t) <= Len(s) /\ SubSeq(s, Len(s) - Len(t) + 1, Len(s)) = t

\* list.some(entry => s.includes(entry))
includesSome(s, list) == \E k \in DOMAIN list : includes(s, list[k])

\* Results the search API may answer with.
PostingAcme ==
  [title |-> Str(<<"B","a","c","k","e","n","d"," ","E","n","g","i","n","e","e","r"," ","-"," ","A","c","m","e">>),
   url |-> <<"h","t","t","p","s",":","/","/","a","c","m","e",".","i","o","/","c","a","r","e","e","r","s","/","b","a","c","k","e","n","d">>,
   content |->
     <<"W","e"," ","a","r","e"," ","h","i","r","i","n","g","."," ","P","y",
       "t","h","o","n"," ","a","n","d"," ","D","o","c","k","e","r"," ","r",
       "e","q","u","i","r","e","d",".">>,
   raw_content |->
     <<>>]
PostingIndeedCa ==
  [title |-> Str(<<"P","y","t","h","o","n"," ","D","e","v","e","l","o","p","e","r"," ","-"," ","I","n","i","t","e","c","h">>),
   url |-> <<"h","t","t","p","s",":","/","/","w","w","w",".","I","n","d","e","e","d",".","c","a","/","v","i","e","w","j","o","b","?","j","k","=","1">>,
   content |->
     <<"A","p","p","l","y"," ","n","o","w","."," ","P","y","t","h","o","n",
       ".">>,
   raw_content |->
     <<>>]
PostingNoTitle ==
  [title |-> undefined,
   url |-> <<"h","t","t","p","s",":","/","/","j","o","b","s",".","e","x","a","m","p","l","e",".","o","r","g","/","j","o","b","/","4","2">>,
   content |->
     <<"R","e","s","p","o","n","s","i","b","i","l","i","t","i","e","s",":",
       " ","b","u","i","l","d"," ","a","n","d"," ","r","u","n"," ","b","a",
       "c","k","e","n","d"," ","s","e","r","v","i","c","e","s"," ","i","n",
       " ","P","y","t","h","o","n"," ","a","n","d"," ","G","o","."," ","R",
       "e","q","u","i","r","e","m","e","n","t","s",":"," ","D","o","c","k",
       "e","r",","," ","K","u","b","e","r","n","e","t","e","s"," ","a","n",
       "d"," ","S","Q","L","."," ","W","e"," ","o","f","f","e","r"," ","a",
       " ","f","r","i","e","n","d","l","y"," ","t","e","a","m",","," ","i",
       "n","t","e","r","e","s","t","i","n","g"," ","p","r","o","b","l","e",
       "m","s"," ","a","n","d"," ","r","o","o","m"," ","t","o"," ","g","r",
       "o","w","."," ","S","e","n","d"," ","y","o","u","r"," ","r","e","s",
       "u","m","e"," ","t","o"," ","t","h","e"," ","a","d","d","r","e","s",
       "s"," ","o","n"," ","t","h","i","s"," ","p","a","g","e"," ","t","o",
       "d","a","y",".">>,
   raw_content |->
     <<>>]
PostingIndeedCom ==
  [title |-> Str(<<"G","o"," ","D","e","v","e","l","o","p","e","r"," ","-"," ","H","o","o","l","i">>),
   url |-> <<"h","t","t","p","s",":","/","/","i","n","d","e","e","d",".","c","o","m","/","v","i","e","w","j","o","b","?","j","k","=","2">>,
   content |->
     <<"J","o","i","n"," ","o","u","r"," ","t","e","a","m","."," ","G","o",
       ".">>,
   raw_content |->
     <<>>]
Article ==
  [title |-> Str(<<"H","o","w"," ","t","o"," ","b","e","c","o","m","e"," ","a","n"," ","e","n","g","i","n","e","e","r">>),
   url |-> <<"h","t","t","p","s",":","/","/","b","l","o","g",".","e","x","a","m","p","l","e","/","p","o","s","t","/","1">>,
   content |->
     <<"A"," ","g","u","i","d","e"," ","t","o"," ","e","n","g","i","n","e",
       "e","r","i","n","g"," ","c","a","r","e","e","r","s",".">>,
   raw_content |->
     <<>>]
PostingGlobex ==
  [title |-> Str(<<"P","l","a","t","f","o","r","m"," ","E","n","g","i","n","e","e","r">>),
   url |-> <<"h","t","t","p","s",":","/","/","g","l","o","b","e","x",".","e","x","a","m","p","l","e","/","c","a","r","e","e","r","s","/","7">>,
   content |->
     <<>>,
   raw_content |->
     <<"W","e"," ","a","r","e"," ","l","o","o","k","i","n","g"," ","f","o",
       "r"," ","a"," ","p","l","a","t","f","o","r","m"," ","e","n","g","i",
       "n","e","e","r","."," ","R","u","s","t",","," ","S","Q","L",".">>]

\* the results in the order the search API ranks them
ResultPool ==
  <<PostingAcme, PostingIndeedCa, PostingNoTitle,
    PostingIndeedCom, Article, PostingGlobex>>

\* the text extractJobContent makes of a fetched posting page
PageText ==
  <<"F","u","l","l"," ","p","o","s","t","i","n","g","."," ","W","e"," ","a",
    "r","e"," ","h","i","r","i","n","g"," ","e","n","g","i","n","e","e","r",
    "s"," ","w","i","t","h"," ","P","y","t","h","o","n",","," ","D","o","c",
    "k","e","r"," ","a","n","d"," ","A","W","S",".">>

SoftwareEngineer ==
  <<"s","o","f","t","w","a","r","e"," ","e","n","g","i","n","e","e","r">>
Jobs ==
  <<"j","o","b","s">>
RoleBackend ==
  <<"b","a","c","k","e","n","d"," ","e","n","g","i","n","e","e","r">>
RoleDevops ==
  <<"d","e","v","o","p","s">>
KeywordGo ==
  <<"g","o">>
Vancouver ==
  <<"V","a","n","c","o","u","v","e","r">>
Hash ==
  <<"#">>
AboutBlank ==
  <<"a","b","o","u","t",":","b","l","a","n","k">>
Separator ==
  <<" ","-"," ">>

\* agent.ts lines 363-407
jobBoardNames ==
  << <<"l","i","n","k","e","d","i","n">>,
     <<"i","n","d","e","e","d">>,
     <<"g","l","a","s","s","d","o","o","r">>,
     <<"m","o","n","s","t","e","r">>,
     <<"z","i","p","r","e","c","r","u","i","t","e","r">>,
     <<"s","i","m","p","l","y","h","i","r","e","d">>,
     <<"c","a","r","e","e","r","b","u","i","l","d","e","r">>,
     <<"s","n","a","g","a","j","o","b">>,
     <<"e","l","u","t","a">>,
     <<"w","o","r","k","o","p","o","l","i","s">>,
     <<"d","i","c","e">>,
     <<"b","u","i","l","t","i","n">>,
     <<"c","r","u","n","c","h","b","o","a","r","d">>,
     <<"h","i","r","e","d">>,
     <<"a","r","c",".","d","e","v">>,
     <<"a","u","t","h","e","n","t","i","c","j","o","b","s">>,
     <<"s","t","a","c","k","o","v","e","r","f","l","o","w">>,
     <<"t","r","i","p","l","e","b","y","t","e">>,
     <<"j","o","b","r","i","g","h","t">>,
     <<"d","e","v","j","o","b","s","s","c","a","n","n","e","r">>,
     <<"l","e","v","e","l","s",".","f","y","i">>,
     <<"w","e","l","l","f","o","u","n","d">>,
     <<"a","n","g","e","l",".","c","o">>,
     <<"w","e","w","o","r","k","r","e","m","o","t","e","l","y">>,
     <<"f","l","e","x","j","o","b","s">>,
     <<"r","e","m","o","t","e",".","c","o">>,
     <<"r","e","m","o","t","i","v","e">>,
     <<"r","e","m","o","t","e","o","k">>,
     <<"r","e","l","o","c","a","t","e",".","m","e">>,
     <<"p","y","t","h","o","n",".","o","r","g">>,
     <<"g","o","l","a","n","g",".","c","a","f","e">>,
     <<"y","c","o","m","b","i","n","a","t","o","r">>,
     <<"r","e","d","d","i","t",".","c","o","m","/","r","/","p","y","t","h","o","n">>,
     <<"r","e","d","d","i","t",".","c","o","m","/","r","/","g","o","l","a","n","g">>,
     <<"r","e","d","d","i","t",".","c","o","m","/","r","/","f","o","r","h","i","r","e">>,
     <<"r","e","d","d","i","t",".","c","o","m","/","r","/","j","o","b","b","i","t">> >>

\* part_005 lines 177-220
jobBoardDomains ==
  << <<"l","i","n","k","e","d","i","n",".","c","o","m","/","j","o","b","s">>,
     <<"i","n","d","e","e","d",".","c","o","m">>,
     <<"g","l","a","s","s","d","o","o","r",".","c","o","m">>,
     <<"m","o","n","s","t","e","r",".","c","o","m">>,
     <<"z","i","p","r","e","c","r","u","i","t","e","r",".","c","o","m">>,
     <<"s","i","m","p","l","y","h","i","r","e","d",".","c","o","m">>,
     <<"c","a","r","e","e","r","b","u","i","l","d","e","r",".","c","o","m">>,
     <<"s","n","a","g","a","j","o","b",".","c","o","m">>,
     <<"d","i","c","e",".","c","o","m">>,
     <<"b","u","i","l","t","i","n",".","c","o","m">>,
     <<"b","u","i","l","t","i","n","s","f",".","c","o","m">>,
     <<"b","u","i","l","t","i","n","v","a","n","c","o","u","v","e","r",".","o","r","g">>,
     <<"c","r","u","n","c","h","b","o","a","r","d",".","c","o","m">>,
     <<"h","i","r","e","d",".","c","o","m">>,
     <<"a","r","c",".","d","e","v">>,
     <<"a","u","t","h","e","n","t","i","c","j","o","b","s",".","c","o","m">>,
     <<"s","t","a","c","k","o","v","e","r","f","l","o","w",".","c","o","m","/","j","o","b","s">>,
     <<"t","r","i","p","l","e","b","y","t","e",".","c","o","m">>,
     <<"j","o","b","r","i","g","h","t",".","a","i">>,
     <<"d","e","v","j","o","b","s","s","c","a","n","n","e","r",".","c","o","m">>,
     <<"w","e","l","l","f","o","u","n","d",".","c","o","m">>,
     <<"a","n","g","e","l",".","c","o">>,
     <<"w","e","w","o","r","k","r","e","m","o","t","e","l","y",".","c","o","m">>,
     <<"f","l","e","x","j","o","b","s",".","c","o","m">>,
     <<"r","e","m","o","t","e",".","c","o">>,
     <<"r","e","m","o","t","i","v","e",".","i","o">>,
     <<"r","e","m","o","t","e","o","k",".","c","o","m">>,
     <<"r","e","l","o","c","a","t","e",".","m","e">>,
     <<"p","y","t","h","o","n",".","o","r","g","/","j","o","b","s">>,
     <<"g","o","l","a","n","g",".","c","a","f","e">>,
     <<"n","e","w","s",".","y","c","o","m","b","i","n","a","t","o","r",".","c","o","m">>,
     <<"r","e","d","d","i","t",".","c","o","m","/","r","/","p","y","t","h","o","n">>,
     <<"r","e","d","d","i","t",".","c","o","m","/","r","/","g","o","l","a","n","g">>,
     <<"r","e","d","d","i","t",".","c","o","m","/","r","/","f","o","r","h","i","r","e">>,
     <<"r","e","d","d","i","t",".","c","o","m","/","r","/","j","o","b","b","i","t">> >>

\* part_005 lines 145-173
excludeKeywords ==
  << <<"c","o","m","p","l","e","t","e"," ","g","u","i","d","e">>,
     <<"g","u","i","d","e"," ","t","o">>,
     <<"h","o","w"," ","t","o">>,
     <<"e","v","e","r","y","t","h","i","n","g"," ","y","o","u"," ","n","e","e","d">>,
     <<"w","h","a","t"," ","i","s">>,
     <<"a","r","t","i","c","l","e">>,
     <<"b","l","o","g"," ","p","o","s","t">>,
     <<"/","p","o","s","t","/">>,
     <<"/","b","l","o","g","/">>,
     <<"i","n","d","e","e","d",".","c","o","m","/","q","-">>,
     <<"i","n","d","e","e","d",".","c","o","m","/","j","o","b","s","?">>,
     <<"i","n","d","e","e","d",".","c","o","m","/","j","o","b","s","e","a","r","c","h">>,
     <<"g","l","a","s","s","d","o","o","r",".","c","o","m","/","J","o","b","/">>,
     <<"g","l","a","s","s","d","o","o","r",".","c","o","m","/","j","o","b","-","l","i","s","t","i","n","g">>,
     <<"l","i","n","k","e","d","i","n",".","c","o","m","/","j","o","b","s","/","s","e","a","r","c","h">>,
     <<"l","i","n","k","e","d","i","n",".","c","o","m","/","j","o","b","s","/","c","o","l","l","e","c","t","i","o","n">>,
     <<"m","o","n","s","t","e","r",".","c","o","m","/","j","o","b","s","/","s","e","a","r","c","h">>,
     <<"m","o","n","s","t","e","r",".","c","o","m","/","j","o","b","s","e","a","r","c","h">>,
     <<"z","i","p","r","e","c","r","u","i","t","e","r",".","c","o","m","/","j","o","b","s","-","s","e","a","r","c","h">>,
     <<"z","i","p","r","e","c","r","u","i","t","e","r",".","c","o","m","/","j","o","b","s","?">>,
     <<"z","i","p","r","e","c","r","u","i","t","e","r",".","c","o","m","/","j","o","b","s","e","a","r","c","h">>,
     <<"d","i","c","e",".","c","o","m","/","j","o","b","s","e","a","r","c","h">>,
     <<"w","e","l","l","f","o","u","n","d",".","c","o","m","/","j","o","b","s">>,
     <<"w","e","l","l","f","o","u","n","d",".","c","o","m","/","s","t","a","r","t","u","p","s","/">>,
     <<"a","n","g","e","l",".","c","o","/","j","o","b","s">>,
     <<"t","a","l","e","n","t",".","i","n","t","u","l","s","a",".","c","o","m","/","p","o","s","t","/">> >>

\* part_005 lines 241-249
searchPageTitles ==
  << <<"j","o","b","s",","," ","e","m","p","l","o","y","m","e","n","t">>,
     <<"j","o","b"," ","s","e","a","r","c","h">>,
     <<"f","i","n","d"," ","j","o","b","s">>,
     <<"b","r","o","w","s","e"," ","j","o","b","s">>,
     <<"j","o","b"," ","l","i","s","t","i","n","g","s">>,
     <<"a","l","l"," ","j","o","b","s">>,
     <<"s","e","a","r","c","h"," ","r","e","s","u","l","t","s">> >>

\* part_005 lines 259-286
jobIndicators ==
  << <<"a","p","p","l","y"," ","n","o","w">>,
     <<"a","p","p","l","y"," ","t","o","d","a","y">>,
     <<"a","p","p","l","y"," ","f","o","r"," ","t","h","i","s">>,
     <<"h","i","r","i","n","g">>,
     <<"w","e","'","r","e"," ","h","i","r","i","n","g">>,
     <<"w","e"," ","a","r","e"," ","h","i","r","i","n","g">>,
     <<"p","o","s","i","t","i","o","n"," ","a","v","a","i","l","a","b","l","e">>,
     <<"j","o","b"," ","o","p","e","n","i","n","g">>,
     <<"o","p","e","n"," ","p","o","s","i","t","i","o","n">>,
     <<"r","o","l","e",":">>,
     <<"r","e","s","p","o","n","s","i","b","i","l","i","t","i","e","s",":">>,
     <<"r","e","q","u","i","r","e","m","e","n","t","s",":">>,
     <<"q","u","a","l","i","f","i","c","a","t","i","o","n","s",":">>,
     <<"s","a","l","a","r","y"," ","r","a","n","g","e">>,
     <<"c","o","m","p","e","n","s","a","t","i","o","n">>,
     <<"b","e","n","e","f","i","t","s"," ","p","a","c","k","a","g","e">>,
     <<"f","u","l","l","-","t","i","m","e">>,
     <<"p","a","r","t","-","t","i","m","e">>,
     <<"r","e","m","o","t","e">>,
     <<"j","o","b"," ","d","e","s","c","r","i","p","t","i","o","n">>,
     <<"w","e"," ","a","r","e"," ","l","o","o","k","i","n","g"," ","f","o","r">>,
     <<"j","o","i","n"," ","o","u","r"," ","t","e","a","m">>,
     <<"s","u","b","m","i","t"," ","y","o","u","r"," ","a","p","p","l","i","c","a","t","i","o","n">>,
     <<"s","e","n","d"," ","y","o","u","r"," ","r","e","s","u","m","e">>,
     <<"y","e","a","r","s"," ","o","f"," ","e","x","p","e","r","i","e","n","c","e">>,
     <<"r","e","q","u","i","r","e","d"," ","s","k","i","l","l","s">> >>

\* part_005 lines 293-304
jobUrlPatterns ==
  << <<"/","j","o","b","s","/","v","i","e","w","/">>,
     <<"/","j","o","b","/">>,
     <<"/","c","a","r","e","e","r","s","/">>,
     <<"/","c","a","r","e","e","r","/">>,
     <<"/","p","o","s","i","t","i","o","n","/">>,
     <<"/","o","p","e","n","i","n","g","/">>,
     <<"/","a","p","p","l","y">>,
     <<"j","o","b","-","i","d","=">>,
     <<"j","o","b","I","d","=">>,
     <<"/","j","o","b","s","/">> >>

\* part_005 lines 392-433: the mock listings
baseJobs(locationSuffix) ==
  <<
   [title |-> Str(<<"S","e","n","i","o","r"," ","S","o","f","t","w","a","r","e"," ","E","n","g","i","n","e","e","r"," ","-"," ","B","a","c","k","e","n","d">>),
    url |-> <<"#">>,
    snippet |->
      <<"W","e","'","r","e"," ","l","o","o","k","i","n","g"," ","f","o","r",
        " ","a"," ","S","e","n","i","o","r"," ","S","o","f","t","w","a","r",
        "e"," ","E","n","g","i","n","e","e","r">>
      \o locationSuffix \o
      <<" ","w","i","t","h"," ","5","+"," ","y","e","a","r","s"," ","o","f",
        " ","e","x","p","e","r","i","e","n","c","e"," ","i","n"," ","G","o",
        ","," ","T","y","p","e","S","c","r","i","p","t",","," ","a","n","d",
        " ","d","i","s","t","r","i","b","u","t","e","d"," ","s","y","s","t",
        "e","m","s","."," ","E","x","p","e","r","i","e","n","c","e"," ","w",
        "i","t","h"," ","K","u","b","e","r","n","e","t","e","s",","," ","A",
        "W","S",","," ","a","n","d"," ","m","i","c","r","o","s","e","r","v",
        "i","c","e","s"," ","a","r","c","h","i","t","e","c","t","u","r","e",
        " ","r","e","q","u","i","r","e","d",".">>],
   [title |-> Str(<<"F","u","l","l"," ","S","t","a","c","k"," ","D","e","v","e","l","o","p","e","r"," ","(","T","y","p","e","S","c","r","i","p","t","/","R","e","a","c","t",")">>),
    url |-> <<"#">>,
    snippet |->
      <<"J","o","i","n"," ","o","u","r"," ","t","e","a","m"," ","a","s"," ",
        "a"," ","F","u","l","l"," ","S","t","a","c","k"," ","D","e","v","e",
        "l","o","p","e","r">>
      \o locationSuffix \o
      <<"."," ","Y","o","u","'","l","l"," ","w","o","r","k"," ","w","i","t",
        "h"," ","T","y","p","e","S","c","r","i","p","t",","," ","R","e","a",
        "c","t",","," ","N","o","d","e",".","j","s",","," ","a","n","d"," ",
        "m","o","d","e","r","n"," ","c","l","o","u","d"," ","t","e","c","h",
        "n","o","l","o","g","i","e","s","."," ","E","x","p","e","r","i","e",
        "n","c","e"," ","w","i","t","h"," ","D","o","c","k","e","r"," ","a",
        "n","d"," ","C","I","/","C","D"," ","p","i","p","e","l","i","n","e",
        "s"," ","p","r","e","f","e","r","r","e","d",".">>],
   [title |-> Str(<<"D","e","v","O","p","s"," ","E","n","g","i","n","e","e","r"," ","-"," ","C","l","o","u","d"," ","I","n","f","r","a","s","t","r","u","c","t","u","r","e">>),
    url |-> <<"#">>,
    snippet |->
      <<"S","e","e","k","i","n","g"," ","a"," ","D","e","v","O","p","s"," ",
        "E","n","g","i","n","e","e","r">>
      \o locationSuffix \o
      <<" ","t","o"," ","m","a","n","a","g","e"," ","o","u","r"," ","c","l",
        "o","u","d"," ","i","n","f","r","a","s","t","r","u","c","t","u","r",
        "e","."," ","M","u","s","t"," ","h","a","v","e"," ","e","x","p","e",
        "r","i","e","n","c","e"," ","w","i","t","h"," ","A","W","S",","," ",
        "K","u","b","e","r","n","e","t","e","s",","," ","D","o","c","k","e",
        "r",","," ","a","n","d"," ","C","I","/","C","D","."," ","K","n","o",
        "w","l","e","d","g","e"," ","o","f"," ","m","o","n","i","t","o","r",
        "i","n","g"," ","a","n","d"," ","a","u","t","o","m","a","t","i","o",
        "n"," ","t","o","o","l","s"," ","e","s","s","e","n","t","i","a","l",
        ".">>],
   [title |-> Str(<<"B","a","c","k","e","n","d"," ","E","n","g","i","n","e","e","r"," ","-"," ","G","o","/","T","y","p","e","S","c","r","i","p","t">>),
    url |-> <<"#">>,
    snippet |->
      <<"B","a","c","k","e","n","d"," ","E","n","g","i","n","e","e","r"," ",
        "p","o","s","i","t","i","o","n">>
      \o locationSuffix \o
      <<" ","r","e","q","u","i","r","i","n","g"," ","s","t","r","o","n","g",
        " ","s","k","i","l","l","s"," ","i","n"," ","G","o"," ","a","n","d",
        " ","T","y","p","e","S","c","r","i","p","t","."," ","E","x","p","e",
        "r","i","e","n","c","e"," ","w","i","t","h"," ","P","o","s","t","g",
        "r","e","S","Q","L",","," ","R","E","S","T"," ","A","P","I","s",",",
        " ","a","n","d"," ","m","i","c","r","o","s","e","r","v","i","c","e",
        "s","."," ","F","a","m","i","l","i","a","r","i","t","y"," ","w","i",
        "t","h"," ","D","o","c","k","e","r"," ","a","n","d"," ","K","u","b",
        "e","r","n","e","t","e","s"," ","i","s"," ","a"," ","p","l","u","s",
        ".">>],
   [title |-> Str(<<"S","o","f","t","w","a","r","e"," ","E","n","g","i","n","e","e","r"," ","-"," ","D","i","s","t","r","i","b","u","t","e","d"," ","S","y","s","t","e","m","s">>),
    url |-> <<"#">>,
    snippet |->
      <<"W","e"," ","n","e","e","d"," ","a"," ","S","o","f","t","w","a","r",
        "e"," ","E","n","g","i","n","e","e","r">>
      \o locationSuffix \o
      <<" ","w","i","t","h"," ","e","x","p","e","r","t","i","s","e"," ","i",
        "n"," ","d","i","s","t","r","i","b","u","t","e","d"," ","s","y","s",
        "t","e","m","s",","," ","G","o",","," ","a","n","d"," ","c","l","o",
        "u","d"," ","t","e","c","h","n","o","l","o","g","i","e","s","."," ",
        "E","x","p","e","r","i","e","n","c","e"," ","w","i","t","h"," ","m",
        "e","s","s","a","g","e"," ","q","u","e","u","e","s",","," ","d","a",
        "t","a","b","a","s","e","s",","," ","a","n","d"," ","c","o","n","t",
        "a","i","n","e","r"," ","o","r","c","h","e","s","t","r","a","t","i",
        "o","n"," ","r","e","q","u","i","r","e","d",".">>],
   [title |-> Str(<<"S","e","n","i","o","r"," ","B","a","c","k","e","n","d"," ","E","n","g","i","n","e","e","r"," ","-"," ","M","i","c","r","o","s","e","r","v","i","c","e","s">>),
    url |-> <<"#">>,
    snippet |->
      <<"S","e","n","i","o","r"," ","B","a","c","k","e","n","d"," ","E","n",
        "g","i","n","e","e","r"," ","r","o","l","e">>
      \o locationSuffix \o
      <<" ","f","o","c","u","s","i","n","g"," ","o","n"," ","m","i","c","r",
        "o","s","e","r","v","i","c","e","s"," ","a","r","c","h","i","t","e",
        "c","t","u","r","e","."," ","R","e","q","u","i","r","e","d",":"," ",
        "G","o",","," ","T","y","p","e","S","c","r","i","p","t",","," ","K",
        "u","b","e","r","n","e","t","e","s",","," ","D","o","c","k","e","r",
        ","," ","P","o","s","t","g","r","e","S","Q","L","."," ","E","x","p",
        "e","r","i","e","n","c","e"," ","w","i","t","h"," ","m","e","s","s",
        "a","g","e"," ","b","r","o","k","e","r","s"," ","a","n","d"," ","e",
        "v","e","n","t","-","d","r","i","v","e","n"," ","s","y","s","t","e",
        "m","s"," ","p","r","e","f","e","r","r","e","d",".">>],
   [title |-> Str(<<"F","u","l","l"," ","S","t","a","c","k"," ","E","n","g","i","n","e","e","r"," ","-"," ","T","y","p","e","S","c","r","i","p","t","/","N","o","d","e",".","j","s">>),
    url |-> <<"#">>,
    snippet |->
      <<"F","u","l","l"," ","S","t","a","c","k"," ","E","n","g","i","n","e",
        "e","r"," ","p","o","s","i","t","i","o","n">>
      \o locationSuffix \o
      <<"."," ","B","u","i","l","d"," ","s","c","a","l","a","b","l","e"," ",
        "w","e","b"," ","a","p","p","l","i","c","a","t","i","o","n","s"," ",
        "w","i","t","h"," ","T","y","p","e","S","c","r","i","p","t",","," ",
        "N","o","d","e",".","j","s",","," ","R","e","a","c","t","."," ","E",
        "x","p","e","r","i","e","n","c","e"," ","w","i","t","h"," ","c","l",
        "o","u","d"," ","p","l","a","t","f","o","r","m","s"," ","(","A","W",
        "S","/","G","C","P",")",","," ","D","o","c","k","e","r",","," ","a",
        "n","d"," ","C","I","/","C","D"," ","r","e","q","u","i","r","e","d",
        ".">>],
   [title |-> Str(<<"B","a","c","k","e","n","d"," ","D","e","v","e","l","o","p","e","r"," ","-"," ","G","o"," ","&"," ","C","l","o","u","d">>),
    url |-> <<"#">>,
    snippet |->
      <<"B","a","c","k","e","n","d"," ","D","e","v","e","l","o","p","e","r">>
      \o locationSuffix \o
      <<" ","s","p","e","c","i","a","l","i","z","i","n","g"," ","i","n"," ",
        "G","o"," ","a","n","d"," ","c","l","o","u","d"," ","i","n","f","r",
        "a","s","t","r","u","c","t","u","r","e","."," ","W","o","r","k"," ",
        "w","i","t","h"," ","K","u","b","e","r","n","e","t","e","s",","," ",
        "D","o","c","k","e","r",","," ","P","o","s","t","g","r","e","S","Q",
        "L",","," ","a","n","d"," ","R","E","S","T"," ","A","P","I","s",".",
        " ","S","t","r","o","n","g"," ","u","n","d","e","r","s","t","a","n",
        "d","i","n","g"," ","o","f"," ","d","i","s","t","r","i","b","u","t",
        "e","d"," ","s","y","s","t","e","m","s"," ","a","n","d"," ","m","i",
        "c","r","o","s","e","r","v","i","c","e","s",".">>]
  >>

\* locationSuffix of getMockJobResults (part_005 line 389)
locationSuffix(location) ==
  IF truthy(location) THEN <<" ","i","n"," ">> \o toText(location) ELSE <<>>

\* part_005 lines 383-462: the mock listings for a query; query.toLowerCase
\* throws when the query is no string
getMockJobResults(query, limit, location) ==
  LET base == baseJobs(locationSuffix(location))
      lowerQuery == toLowerCase(query.v)
      titleHas(job, word) == includes(toLowerCase(job.title.v), word)
      backendOrGo(job) == titleHas(job, <<"b","a","c","k","e","n","d">>)
                            \/ titleHas(job, <<"g","o">>)
      fullStackOrFrontend(job) ==
        titleHas(job, <<"f","u","l","l"," ","s","t","a","c","k">>)
          \/ titleHas(job, <<"f","r","o","n","t","e","n","d">>)
      devops(job) == titleHas(job, <<"d","e","v","o","p","s">>)
      filteredJobs ==
        IF includes(lowerQuery, <<"b","a","c","k","e","n","d">>)
             \/ includes(lowerQuery, <<"g","o">>)
        THEN SelectSeq(base, backendOrGo)
        ELSE IF includes(lowerQuery, <<"f","u","l","l"," ","s","t","a","c","k">>)
                  \/ includes(lowerQuery, <<"f","r","o","n","t","e","n","d">>)
        THEN SelectSeq(base, fullStackOrFrontend)
        ELSE IF includes(lowerQuery, <<"d","e","v","o","p","s">>)
        THEN SelectSeq(base, devops)
        ELSE base
  IN  IF query.t # "string"
      THEN [throws |-> TRUE, results |-> <<>>]
      ELSE [throws |-> FALSE,
            results |-> slice(IF filteredJobs = <<>> THEN base ELSE filteredJobs,
                              0, limit)]

\* `a || b` for two strings
orElse(a, b) == IF a # <<>> THEN a ELSE b

\* the search-page pattern of part_005 line 142, applied to a lowercased url
searchPageFragments ==
  << <<"/","j","o","b","s","?">>,
     <<"j","o","b","s","e","a","r","c","h">>,
     <<"j","o","b","-","l","i","s","t","i","n","g">>,
     <<"j","o","b","s","/","s","e","a","r","c","h">>,
     <<"j","o","b","s","/","c","o","l","l","e","c","t","i","o","n">>,
     <<"q","-">> >>
isSearchPage(url) ==
  \/ includesSome(url, searchPageFragments)
  \/ endsWith(url, <<"/","j","o","b","s">>)
  \/ endsWith(url, <<"/","j","o","b","s","/">>)

\* part_005 lines 306-313
hasJobUrl(url) ==
  \E k \in DOMAIN jobUrlPatterns :
    IF jobUrlPatterns[k] = <<"/","j","o","b","s","/">>
    THEN \/ includes(url, <<"/","j","o","b","s","/","v","i","e","w","/">>)
         \/ /\ includes(url, <<"/","j","o","b","s","/">>)
            /\ ~includes(url, <<"/","j","o","b","s","?">>)
            /\ ~includes(url, <<"/","j","o","b","s","/","s","e","a","r","c","h">>)
    ELSE includes(url, jobUrlPatterns[k])

\* part_005 lines 136-318: the filter callback of performWebSearch
isJobPosting(r) ==
  LET title == toLowerCase(IF truthy(r.title) THEN r.title.v ELSE <<>>)
      url == toLowerCase(r.url)
      content == substring(toLowerCase(orElse(r.content, r.raw_content)),
                           maxFilterContentLength)
      isArticle == \E k \in DOMAIN excludeKeywords :
                     \/ includes(title, excludeKeywords[k])
                     \/ includes(url, excludeKeywords[k])
                     \/ includes(content, excludeKeywords[k])
      hasJobIndicators == \E k \in DOMAIN jobIndicators :
                            \/ includes(title, jobIndicators[k])
                            \/ includes(content, jobIndicators[k])
  IN  IF includesSome(url, jobBoardDomains) THEN FALSE
      ELSE IF isArticle \/ isSearchPage(url) THEN FALSE
      ELSE IF includesSome(title, searchPageTitles) THEN FALSE
      ELSE (hasJobIndicators \/ hasJobUrl(url)) /\ ~isSearchPage(url)

\* part_005 lines 319-324 and 332-337: a raw result as searchJobs returns it
toSearchResult(r) ==
  [title |-> r.title,
   url |-> r.url,
   snippet |-> orElse(substring(r.content, maxSnippetLength),
                      substring(r.raw_content, maxSnippetLength)),
   content |-> orElse(r.content, r.raw_content)]

\* part_005 lines 80-346: what performWebSearch returns.  `how` tells how
\* the call to the search API ended: "throws", "notOk" or "ok", and `raw`
\* is data.results of an "ok" response ([] when the field is absent)
performWebSearch(hasKey, how, raw, limit) ==
  IF ~hasKey THEN <<>>
  ELSE IF how # "ok" THEN <<>>
  ELSE IF Len(raw) > 0
  THEN LET jobPostings ==
             [k \in DOMAIN SelectSeq(raw, isJobPosting) |->
                toSearchResult(SelectSeq(raw, isJobPosting)[k])]
       IN  IF Len(jobPostings) > 0
           THEN slice(jobPostings, 0, limit)
           ELSE LET top == slice(raw, 0, limit)
                IN  [k \in DOMAIN top |-> toSearchResult(top[k])]
  ELSE <<>>

\* part_005 lines 30-33: the query searchJobs sends to the search API
effectiveQuery(query, location) ==
  IF truthy(location)
  THEN toText(query) \o <<" ","h","i","r","i","n","g"," ">> \o toText(location)
         \o <<" ","a","p","p","l","y"," ","p","o","s","i","t","i","o","n"," ",
              "o","p","e","n","i","n","g">>
  ELSE toText(query)
         \o <<" ","h","i","r","i","n","g"," ","a","p","p","l","y"," ",
              "p","o","s","i","t","i","o","n"," ","o","p","e","n","i","n","g">>

\* a mutant of searchJobs: a failed or empty search is answered with the
\* mock listings whatever the credential
searchJobsAlwaysMock(query, location, limit, hasKey, how, raw) ==
  LET found == performWebSearch(hasKey, how, raw, limit)
  IN  IF Len(found) > 0 THEN [throws |-> FALSE, results |-> found]
      ELSE getMockJobResults(query, limit, location)

\* part_005 lines 20-75: what searchJobs returns, or that it throws.  The
\* mock lookup of the catch block (line 69) fails as the one of line 55 did.
searchJobs(query, location, limit, hasKey, how, raw) ==
  LET found == performWebSearch(hasKey, how, raw, limit)
  IN  IF Len(found) > 0 THEN [throws |-> FALSE, results |-> found]
      ELSE IF ~hasKey THEN getMockJobResults(query, limit, location)
      ELSE [throws |-> FALSE, results |-> found]

\* agent.ts lines 339-346: the query searchAndRankJobs hands to searchJobs
\* (the role itself, of whatever type, when there are no keywords)
searchQuery(prefs) ==
  LET role == IF truthy(prefs.role) THEN prefs.role
              ELSE Str(SoftwareEngineer)
  IN  IF truthy(prefs.keywords)
      THEN Str(toText(role) \o <<" ">> \o toText(prefs.keywords))
      ELSE role

\* ` ${location}` when there is a location (lines 356, 420, 494, 501)
locationPart(prefs) ==
  IF truthy(prefs.location)
  THEN <<" ">> \o toText(prefs.location) ELSE <<>>

\* lines 356, 420 and 494: the searchQuery field of a returned result
returnedQuery(prefs) ==
  toText(searchQuery(prefs)) \o locationPart(prefs)

\* line 501: the searchQuery field the outer catch returns
catchQuery(prefs) ==
  (IF truthy(prefs.role) THEN toText(prefs.role) ELSE Jobs)
    \o locationPart(prefs)

\* a mutant of isJobBoard: the exact domains of the search stage are used
isJobBoardByDomain(r) ==
  includesSome(toLowerCase(r.url), jobBoardDomains)

\* lines 409-414: the url holds the name of a job board
isJobBoard(r) ==
  includesSome(toLowerCase(r.url), jobBoardNames)

\* resultWithContent.content, absent from a mock listing
contentOf(r) ==
  IF "content" \in DOMAIN r THEN r.content ELSE <<>>

\* part_005 lines 352-378: the texts extractJobContent may return for a url:
\* "" when the fetch throws (as it does for "#", which is no URL) or the
\* response is not OK, else the text of the page
extractJobContent(url) ==
  IF url = Hash THEN {<<>>} ELSE {<<>>, PageText}

\* the objects the model answers a scoring request with
RankObjects ==
  { [reply |-> "absent", score |-> s,
     matched_skills |-> SkillArray(<<SkPython>>),
     missing_skills |-> SkillArray(<<SkPython>>),
     suggestions |-> [t |-> "absent", v |-> <<>>],
     short_summary |-> [t |-> "absent", v |-> <<>>]] :
      s \in {JsonNumber(1400), JsonNumber(855)} }

\* agent.ts lines 32-305 seen from a caller: the results analyzeJDResume may
\* return for two texts, which are the fallback analysis (the outer catch
\* builds the same one) and the results derived from the model's objects
analyzeJDResume(jobDescription, resume) ==
  {fallbackAnalysis(jobDescription, resume)}
    \cup { validateAndCorrect(o, jobDescription, resume).value :
             o \in {x \in RankObjects :
                      validateAndCorrect(x, jobDescription, resume).ok} }

\* `analysis.score || 0` capped (line 451)
cappedScore(score) ==
  MathMin(Num(1000), MathMax(Num(0), IF score.nan \/ score.tenths = 0
                                     THEN Num(0) ELSE score))

\* result.title.split(" - ")[1] (lines 454-455), undefined when the title
\* holds no separator
company(title) ==
  LET starts == {k \in 1..(Len(title) - 2) : SubSeq(title, k, k + 2) = Separator}
  IN  IF starts = {} THEN undefined
      ELSE LET first == CHOOSE k \in starts : \A m \in starts : k <= m
               later == {k \in starts : k >= first + 3}
               stop == IF later = {} THEN Len(title) + 1
                       ELSE CHOOSE k \in later : \A m \in later : k <= m
           IN  Str(SubSeq(title, first + 3, stop - 1))

\* lines 458-460
jobUrl(url) ==
  IF url # <<>> /\ trim(url) # <<>> /\ url # AboutBlank THEN url ELSE Hash

\* lines 462-472: the job pushed for a scored candidate
scoredJob(r, jobDescription, analysis) ==
  [title |-> r.title,
   company |-> company(r.title.v),
   url |-> jobUrl(r.url),
   description |-> substring(jobDescription, maxDescriptionLength),
   score |-> cappedScore(analysis.score),
   matchDetails |-> [matched_skills |-> analysis.matched_skills,
                     missing_skills |-> analysis.missing_skills]]

\* a mutant of failedJob: the failed candidate is given a middling score
failedJobScored(r) ==
  [title |-> r.title,
   url |-> r.url,
   description |-> r.snippet,
   score |-> Num(500)]

\* lines 477-482: the job pushed when scoring the candidate failed
failedJob(r) ==
  [title |-> r.title,
   url |-> r.url,
   description |-> r.snippet,
   score |-> Num(0)]

\* `job.score || 0` of the comparator, in tenths
scoreOrZero(job) == IF job.score.nan THEN 0 ELSE job.score.tenths

\* a mutant of sortByScore: jobs of equal score change places
sortByScoreUnstable(jobs) ==
  LET before(j, k) == \/ scoreOrZero(jobs[j]) > scoreOrZero(jobs[k])
                      \/ scoreOrZero(jobs[j]) = scoreOrZero(jobs[k]) /\ j > k
      place(k) == Cardinality({j \in DOMAIN jobs : before(j, k)}) + 1
  IN  [p \in DOMAIN jobs |-> jobs[CHOOSE k \in DOMAIN jobs : place(k) = p]]

\* line 487: jobsWithScores.sort((a, b) => (b.score || 0) - (a.score || 0)).
\* Array.prototype.sort is stable: a job goes after the jobs of higher score
\* and after the earlier jobs of its own score.
sortByScore(jobs) ==
  LET before(j, k) == \/ scoreOrZero(jobs[j]) > scoreOrZero(jobs[k])
                      \/ scoreOrZero(jobs[j]) = scoreOrZero(jobs[k]) /\ j < k
      place(k) == Cardinality({j \in DOMAIN jobs : before(j, k)}) + 1
  IN  [p \in DOMAIN jobs |-> jobs[CHOOSE k \in DOMAIN jobs : place(k) = p]]

\* What the requests ask for.
Roles == {undefined, Str(RoleBackend), Str(RoleDevops), NumberValue(<<"5">>)}
Keywords == {undefined, Str(KeywordGo)}
Locations == {undefined, Str(Vancouver)}
Preferences == [role : Roles, keywords : Keywords, location : Locations]

\* the results of ResultPool at the places S, in the order of the pool
pick(S) ==
  LET nth(k) == CHOOSE i \in S : Cardinality({j \in S : j < i}) = k - 1
  IN  [k \in 1..Cardinality(S) |-> ResultPool[nth(k)]]

\* data.results of the search API's answers
Responses ==
  { pick(S) : S \in {T \in SUBSET DOMAIN ResultPool : Cardinality(T) <= MaxResults} }

NoJobSearchResult == [jobs |-> <<>>, totalFound |-> -1, searchQuery |-> <<>>]

\* searchAndRankJobs awaits searchJobs (line 350).  Without a search
\* credential performWebSearch returns at once and searchJobs answers with
\* the mock listings, or throws; with one the search API is called.
StartSearch ==
  /\ pcSearch = "idle"
  /\ backendQuery' = effectiveQuery(searchQuery(preferences), preferences.location)
  /\ IF TAVILY_API_KEY
     THEN /\ pcSearch' = "searching"
          /\ UNCHANGED searchResults
     ELSE LET found == searchJobs(searchQuery(preferences), preferences.location,
                                  searchLimit, FALSE, "notCalled", <<>>)
          IN  IF found.throws
              THEN pcSearch' = "outerCatch" /\ UNCHANGED searchResults
              ELSE pcSearch' = "filter" /\ searchResults' = found.results
  /\ UNCHANGED <<TAVILY_API_KEY, preferences, fetched, response,
                 filteredResults, jobsWithScores, searchReturn, scoringCalls,
                 analysisVars, letterVars,
                 strengthVars>>

\* the call to the search API throws or answers with a status that is not OK
SearchFails ==
  /\ pcSearch = "searching"
  /\ \E how \in {"throws", "notOk"} :
       /\ fetched' = how
       /\ searchResults' =
            searchJobs(searchQuery(preferences), preferences.location,
                       searchLimit, TAVILY_API_KEY, how, <<>>).results
  /\ pcSearch' = "filter"
  /\ UNCHANGED <<TAVILY_API_KEY, preferences, backendQuery, response,
                 filteredResults, jobsWithScores, searchReturn, scoringCalls,
                 analysisVars, letterVars,
                 strengthVars>>

\* the search API answers with results
SearchResponds ==
  /\ pcSearch = "searching"
  /\ \E raw \in Responses :
       /\ response' = raw
       /\ searchResults' =
            searchJobs(searchQuery(preferences), preferences.location,
                       searchLimit, TAVILY_API_KEY, "ok", raw).results
  /\ fetched' = "ok"
  /\ pcSearch' = "filter"
  /\ UNCHANGED <<TAVILY_API_KEY, preferences, backendQuery, filteredResults,
                 jobsWithScores, searchReturn, scoringCalls,
                 analysisVars, letterVars,
                 strengthVars>>

\* a mutant of FilterJobBoards: no result is taken for a job board
FilterJobBoardsKeepsAll ==
  /\ pcSearch = "filter"
  /\ LET keep(r) == TRUE
         filtered == SelectSeq(searchResults, keep)
     IN  IF Len(searchResults) = 0
         THEN /\ searchReturn' = [jobs |-> <<>>, totalFound |-> 0,
                                  searchQuery |-> returnedQuery(preferences)]
              /\ pcSearch' = "done"
              /\ UNCHANGED filteredResults
         ELSE IF Len(filtered) = 0
         THEN /\ searchReturn' = [jobs |-> <<>>,
                                  totalFound |-> Len(searchResults),
                                  searchQuery |-> returnedQuery(preferences)]
              /\ pcSearch' = "done"
              /\ UNCHANGED filteredResults
         ELSE /\ filteredResults' = filtered
              /\ pcSearch' = "score"
              /\ UNCHANGED searchReturn
  /\ UNCHANGED <<TAVILY_API_KEY, preferences, backendQuery, fetched, response,
                 searchResults, jobsWithScores, scoringCalls,
                 analysisVars, letterVars,
                 strengthVars>>

\* lines 352-422: nothing found, or the job boards are filtered out
FilterJobBoards ==
  /\ pcSearch = "filter"
  /\ LET keep(r) == ~isJobBoard(r)
         filtered == SelectSeq(searchResults, keep)
     IN  IF Len(searchResults) = 0
         THEN /\ searchReturn' = [jobs |-> <<>>, totalFound |-> 0,
                                  searchQuery |-> returnedQuery(preferences)]
              /\ pcSearch' = "done"
              /\ UNCHANGED filteredResults
         ELSE IF Len(filtered) = 0
         THEN /\ searchReturn' = [jobs |-> <<>>,
                                  totalFound |-> Len(searchResults),
                                  searchQuery |-> returnedQuery(preferences)]
              /\ pcSearch' = "done"
              /\ UNCHANGED filteredResults
         ELSE /\ filteredResults' = filtered
              /\ pcSearch' = "score"
              /\ UNCHANGED searchReturn
  /\ UNCHANGED <<TAVILY_API_KEY, preferences, backendQuery, fetched, response,
                 searchResults, jobsWithScores, scoringCalls,
                 analysisVars, letterVars,
                 strengthVars>>

\* a mutant of jobsToAnalyze: every candidate is analysed
jobsToAnalyzeAll == Len(filteredResults)

\* line 427
jobsToAnalyze == Min(Len(filteredResults), maxJobsToAnalyze)

\* a mutant of ScoreCandidate: a page that cannot be fetched fails the round
ScoreCandidateFetchThrows ==
  /\ pcSearch = "score"
  /\ Len(jobsWithScores) < jobsToAnalyze
  /\ LET r == filteredResults[Len(jobsWithScores) + 1]
         given == orElse(contentOf(r), r.snippet)
     IN  \E fullContent \in (IF Len(given) < minDescriptionLength
                             THEN extractJobContent(r.url) ELSE {<<>>}) :
           LET jobDescription == IF fullContent # <<>> /\ Len(fullContent) > Len(given)
                                 THEN fullContent ELSE given
           IN  /\ \E analysis \in analyzeJDResume(jobDescription, resumeText) :
                    jobsWithScores' = Append(jobsWithScores,
                       IF r.title.t = "string" /\
                          ~(Len(given) < minDescriptionLength /\ fullContent = <<>>)
                       THEN scoredJob(r, jobDescription, analysis)
                       ELSE failedJob(r))
               /\ scoringCalls' = Append(scoringCalls,
                    [candidate |-> r,
                     fetched |-> Len(given) < minDescriptionLength,
                     fullContent |-> fullContent,
                     jobDescription |-> jobDescription])
  /\ env' = getProviderFromEnv(env).env
  /\ UNCHANGED <<TAVILY_API_KEY, preferences, pcSearch, backendQuery, fetched,
                 response, searchResults, filteredResults, searchReturn,
                 jdText, resumeText, pc, resultText, jsonStr, outcome,
                 parsedJson, result, site, thrown, fallbackSeen, arrived,
                 letterVars,
                 strengthVars>>

\* lines 429-484: one round of the scoring loop.  The page is fetched for a
\* short description, the description is analysed (which makes the provider
\* from the environment), and a candidate without a title makes
\* result.title.split throw, which the catch of the round answers.
ScoreCandidate ==
  /\ pcSearch = "score"
  /\ Len(jobsWithScores) < jobsToAnalyze
  /\ LET r == filteredResults[Len(jobsWithScores) + 1]
         given == orElse(contentOf(r), r.snippet)
     IN  \E fullContent \in (IF Len(given) < minDescriptionLength
                             THEN extractJobContent(r.url) ELSE {<<>>}) :
           LET jobDescription == IF fullContent # <<>> /\ Len(fullContent) > Len(given)
                                 THEN fullContent ELSE given
           IN  /\ \E analysis \in analyzeJDResume(jobDescription, resumeText) :
                    jobsWithScores' = Append(jobsWithScores,
                       IF r.title.t = "string"
                       THEN scoredJob(r, jobDescription, analysis)
                       ELSE failedJob(r))
               /\ scoringCalls' = Append(scoringCalls,
                    [candidate |-> r,
                     fetched |-> Len(given) < minDescriptionLength,
                     fullContent |-> fullContent,
                     jobDescription |-> jobDescription])
  /\ env' = getProviderFromEnv(env).env
  /\ UNCHANGED <<TAVILY_API_KEY, preferences, pcSearch, backendQuery, fetched,
                 response, searchResults, filteredResults, searchReturn,
                 jdText, resumeText, pc, resultText, jsonStr, outcome,
                 parsedJson, result, site, thrown, fallbackSeen, arrived,
                 letterVars,
                 strengthVars>>

\* a mutant of RankAndReturn: totalFound is reported as 0
RankAndReturnNoTotal ==
  /\ pcSearch = "score"
  /\ Len(jobsWithScores) = jobsToAnalyze
  /\ searchReturn' = [jobs |-> sortByScore(jobsWithScores),
                      totalFound |-> 0,
                      searchQuery |-> returnedQuery(preferences)]
  /\ pcSearch' = "done"
  /\ UNCHANGED <<TAVILY_API_KEY, preferences, backendQuery, fetched, response,
                 searchResults, filteredResults, jobsWithScores, scoringCalls,
                 analysisVars, letterVars,
                 strengthVars>>

\* lines 486-495: the jobs are sorted and returned
RankAndReturn ==
  /\ pcSearch = "score"
  /\ Len(jobsWithScores) = jobsToAnalyze
  /\ searchReturn' = [jobs |-> sortByScore(jobsWithScores),
                      totalFound |-> Len(searchResults),
                      searchQuery |-> returnedQuery(preferences)]
  /\ pcSearch' = "done"
  /\ UNCHANGED <<TAVILY_API_KEY, preferences, backendQuery, fetched, response,
                 searchResults, filteredResults, jobsWithScores, scoringCalls,
                 analysisVars, letterVars,
                 strengthVars>>

\* lines 496-503: the outer catch of searchAndRankJobs
SearchOuterCatch ==
  /\ pcSearch = "outerCatch"
  /\ searchReturn' = [jobs |-> <<>>, totalFound |-> 0,
                      searchQuery |-> catchQuery(preferences)]
  /\ pcSearch' = "done"
  /\ UNCHANGED <<TAVILY_API_KEY, preferences, backendQuery, fetched, response,
                 searchResults, filteredResults, jobsWithScores, scoringCalls,
                 analysisVars, letterVars,
                 strengthVars>>

SearchInit ==
  /\ env = [GROQ_API_KEY |-> TRUE, OPENAI_API_KEY |-> FALSE,
            OPENAI_BASE_URL |-> "unset"]
  /\ jdText = <<>>
  /\ resumeText = ResumeScenario
  /\ pc = "idle"
  /\ resultText = <<>>
  /\ jsonStr = "none"
  /\ outcome = "none"
  /\ parsedJson = NoObject
  /\ result = NoResult
  /\ site = "none"
  /\ thrown = FALSE
  /\ fallbackSeen = {}
  /\ arrived = <<>>
  /\ TAVILY_API_KEY \in BOOLEAN
  /\ preferences \in Preferences
  /\ pcSearch = "idle"
  /\ backendQuery = <<>>
  /\ fetched = "notCalled"
  /\ response = <<>>
  /\ searchResults = <<>>
  /\ filteredResults = <<>>
  /\ jobsWithScores = <<>>
  /\ scoringCalls = <<>>
  /\ searchReturn = NoJobSearchResult
  /\ LetterIdle
  /\ StrengthIdle

SearchNext ==
  \/ StartSearch
  \/ SearchFails
  \/ SearchResponds
  \/ FilterJobBoards
  \/ ScoreCandidate
  \/ RankAndReturn
  \/ SearchOuterCatch

SearchSpec == SearchInit /\ [][SearchNext]_vars

(***************************************************************************)
(* Cover letter generation: generateCoverLetter (src/unnamed/part_006      *)
(* 740-1127).  The text gathered from the model stream goes through a      *)
(* chain of string replacements before it is returned.                     *)
(***************************************************************************)

\* minimum length of a cleaned letter (part_006 line 1104)
minCoverLetterLength == 100

\* String.prototype.indexOf(t, from): 0-based index of the first occurrence
\* of t at or after from, -1 when there is none
indexOf(s, t, from) ==
  LET found == {i \in from..(Len(s) - Len(t)) :
                  s[i + 1] = t[1] /\ SubSeq(s, i + 1, i + Len(t)) = t}
  IN  IF found = {} THEN -1
      ELSE CHOOSE i \in found : \A j \in found : i <= j

\* \s*: the position (1-based) of the first character at or after i that is
\* not white space, Len(s) + 1 when only white space follows
skipSpace(s, i) ==
  LET stops == {j \in i..Len(s) : s[j] \notin WhiteSpace}
  IN  IF stops = {} THEN Max(i, Len(s) + 1)
      ELSE CHOOSE j \in stops : \A k \in stops : j <= k

\* line 863, replace of /^["']+|["']+$/g: the leading and the trailing run of
\* quotes go
stripQuotes(s) ==
  LET Quotes == {"\"", "'"}
      inner == {i \in 1..Len(s) : s[i] \notin Quotes}
  IN  IF inner = {} THEN <<>>
      ELSE SubSeq(s, CHOOSE i \in inner : \A j \in inner : i <= j,
                     CHOOSE i \in inner : \A j \in inner : j <= i)

\* three grave accents; a string of this language cannot hold the character,
\* "GRAVE" stands for it
Fence == <<"GRAVE","GRAVE","GRAVE">>

\* line 866, the non-greedy replace of fence, any text, fence: every fenced
\* block goes, fences and content
RECURSIVE removeFencedBlocks(_)
removeFencedBlocks(s) ==
  LET open == indexOf(s, Fence, 0)
      close == IF open = -1 THEN -1 ELSE indexOf(s, Fence, open + 3)
  IN  IF close = -1 THEN s
      ELSE SubSeq(s, 1, open) \o removeFencedBlocks(SubSeq(s, close + 4, Len(s)))

\* line 867, replace of /^fence\w*\n?/gm: a fence at the start of a line
\* goes with the word after it and the line break; atLineStart tells whether
\* s begins a line
RECURSIVE removeOpeningFences(_, _)
removeOpeningFences(s, atLineStart) ==
  LET n == Len(s)
      isWord(ch) == \/ \E k \in DOMAIN LowerChars : toLowerChar(ch) = LowerChars[k]
                    \/ ch \in {"0","1","2","3","4","5","6","7","8","9","_"}
      starts == {p \in 0..(n - 3) :
                   /\ IF p = 0 THEN atLineStart ELSE s[p] = "\n"
                   /\ SubSeq(s, p + 1, p + 3) = Fence}
  IN  IF starts = {} THEN s
      ELSE LET p == CHOOSE i \in starts : \A j \in starts : i <= j
               rest == {q \in (p + 3)..n : q = n \/ ~isWord(s[q + 1])}
               w == CHOOSE i \in rest : \A j \in rest : i <= j
               e == IF w < n /\ s[w + 1] = "\n" THEN w + 1 ELSE w
           IN  SubSeq(s, 1, p) \o removeOpeningFences(SubSeq(s, e + 1, n), e > w)

\* line 868, replace of /\n?fence$/gm: a fence at the end of a line goes with
\* the line break before it
RECURSIVE removeClosingFences(_)
removeClosingFences(s) ==
  LET n == Len(s)
      ends == {p \in 0..(n - 3) :
                 /\ SubSeq(s, p + 1, p + 3) = Fence
                 /\ (p + 3 = n \/ s[p + 4] = "\n")}
  IN  IF ends = {} THEN s
      ELSE LET p == CHOOSE i \in ends : \A j \in ends : i <= j
               b == IF p > 0 /\ s[p] = "\n" THEN p - 1 ELSE p
           IN  SubSeq(s, 1, b) \o removeClosingFences(SubSeq(s, p + 4, n))

\* JSON.parse followed by parsed.cover_letter || parsed.text || coverLetter.
\* The JSON documents among the texts of the model are the objects of one
\* string member, written {"key": "value"} with a value free of quotes,
\* backslashes and line breaks; on every other text JSON.parse throws and the
\* text is kept.
parseCoverLetter(s) ==
  LET doc == trim(s)
      n == Len(doc)
      keyEnd == indexOf(doc, <<"\"",":"," ","\"">>, 2)
      key == SubSeq(doc, 3, keyEnd)
      value == SubSeq(doc, keyEnd + 5, n - 2)
      plain(x) == \A i \in DOMAIN x : x[i] \notin {"\"", "\\", "\n", "\t"}
      isObject == /\ n >= 8
                  /\ SubSeq(doc, 1, 2) = <<"{","\"">>
                  /\ SubSeq(doc, n - 1, n) = <<"\"","}">>
                  /\ keyEnd # -1 /\ keyEnd + 4 <= n - 2
                  /\ plain(key) /\ plain(value)
  IN  IF isObject /\ value # <<>>
         /\ key \in {<<"c","o","v","e","r","_","l","e","t","t","e","r">>,
                     <<"t","e","x","t">>}
      THEN value
      ELSE s

\* Length of the match of a greeting pattern at the start of s, 0 when it
\* does not match.  Patterns, in the order of greetingPatterns:
\*   1: /^dear\s+[^,]+,\s*/i   2: /^dear\s+hiring\s+manager,?\s*/i
\*   3: /^dear\s+[^,\n]+,\s*/i
greetingLength(s, pattern) ==
  LET low == toLowerCase(s)
      n == Len(s)
      Dear == <<"d","e","a","r">>
      Hiring == <<"h","i","r","i","n","g">>
      Manager == <<"m","a","n","a","g","e","r">>
      comma == indexOf(s, <<",">>, 4) + 1
      a == skipSpace(s, 5)
      b == skipSpace(s, a + 6)
      c == IF b + 7 <= n /\ s[b + 7] = "," THEN b + 8 ELSE b + 7
  IN  IF n < 4 \/ SubSeq(low, 1, 4) # Dear THEN 0
      ELSE IF pattern = 2
      THEN IF /\ a > 5 /\ a + 5 <= n /\ SubSeq(low, a, a + 5) = Hiring
              /\ b > a + 6 /\ b + 6 <= n /\ SubSeq(low, b, b + 6) = Manager
           THEN skipSpace(s, c) - 1
           ELSE 0
      ELSE IF /\ comma # 0
              /\ \E k \in 5..(comma - 2) :
                   /\ \A j \in 5..k : s[j] \in WhiteSpace
                   /\ pattern = 3 => \A j \in (k + 1)..(comma - 1) : s[j] # "\n"
           THEN skipSpace(s, comma + 1) - 1
           ELSE 0

\* lines 1050-1055: while the pattern matches, its match is replaced by the
\* empty string
RECURSIVE removeGreetings(_, _)
removeGreetings(s, pattern) ==
  IF greetingLength(s, pattern) = 0 THEN s
  ELSE removeGreetings(SubSeq(s, greetingLength(s, pattern) + 1, Len(s)), pattern)

promptMarkers ==
  << <<"Y","o","u"," ","a","r","e"," ","a"," ","p","r","o","f","e","s","s","i","o","n","a","l"," ","c","o","v","e","r"," ","l","e","t","t","e","r"," ","w","r","i","t","e","r">>,
     <<"C","R","I","T","I","C","A","L"," ","I","N","S","T","R","U","C","T","I","O","N","S",":">>,
     <<"C","o","n","t","e","n","t"," ","R","e","q","u","i","r","e","m","e","n","t","s",":">>,
     <<"O","u","t","p","u","t"," ","O","N","L","Y"," ","t","h","e"," ","c","o","v","e","r"," ","l","e","t","t","e","r">>,
     <<"B","e","g","i","n"," ","y","o","u","r"," ","r","e","s","p","o","n","s","e"," ","n","o","w">>,
     <<"I","M","P","O","R","T","A","N","T",":"," ","Y","o","u","r"," ","r","e","s","p","o","n","s","e"," ","m","u","s","t"," ","c","o","n","t","a","i","n">>,
     <<"W","r","i","t","e"," ","a"," ","p","r","o","f","e","s","s","i","o","n","a","l"," ","c","o","v","e","r"," ","l","e","t","t","e","r">>,
     <<"T","h","e"," ","c","o","v","e","r"," ","l","e","t","t","e","r"," ","s","h","o","u","l","d",":">>,
     <<"S","t","a","r","t"," ","w","i","t","h"," ","\"","D","e","a","r"," ","H","i","r","i","n","g"," ","M","a","n","a","g","e","r",",","\"">>,
     <<"B","e"," ","3","-","4"," ","p","a","r","a","g","r","a","p","h","s">>,
     <<"F","i","r","s","t"," ","p","a","r","a","g","r","a","p","h",":">>,
     <<"S","e","c","o","n","d"," ","p","a","r","a","g","r","a","p","h",":">>,
     <<"T","h","i","r","d"," ","p","a","r","a","g","r","a","p","h",":">>,
     <<"F","o","u","r","t","h"," ","p","a","r","a","g","r","a","p","h",":">>,
     <<"E","n","d"," ","w","i","t","h"," ","\"","S","i","n","c","e","r","e","l","y",",","\"">>,
     <<"U","s","e"," ","f","i","r","s","t"," ","p","e","r","s","o","n">>,
     <<"B","e"," ","p","r","o","f","e","s","s","i","o","n","a","l"," ","a","n","d"," ","e","n","t","h","u","s","i","a","s","t","i","c">>,
     <<"M","a","t","c","h"," ","t","h","e"," ","t","o","n","e">>,
     <<"D","o"," ","n","o","t"," ","i","n","c","l","u","d","e"," ","p","l","a","c","e","h","o","l","d","e","r","s">> >>

\* the loop over promptMarkers from marker k on
RECURSIVE removePromptMarkers(_, _)
removePromptMarkers(s, k) ==
  IF k > Len(promptMarkers) \/ s = <<>> THEN s
  ELSE LET marker == promptMarkers[k]
           low == toLowerCase(s)
           markerIdx == indexOf(low, toLowerCase(marker), 0)
           dearAfterMarker == indexOf(low, <<"d","e","a","r">>, markerIdx)
           beforeMarker == SubSeq(s, 1, markerIdx)
           next == IF markerIdx = -1 THEN s
                   ELSE IF dearAfterMarker > markerIdx
                   THEN beforeMarker \o SubSeq(s, dearAfterMarker + 1, Len(s))
                   ELSE IF /\ (marker[1] = "-" \/ includes(marker, <<":">>))
                           /\ includes(toLowerCase(beforeMarker), <<"d","e","a","r">>)
                   THEN beforeMarker
                   ELSE s
       IN  removePromptMarkers(next, k + 1)

contentMarkers ==
  << <<"J","o","b"," ","D","e","s","c","r","i","p","t","i","o","n",":">>,
     <<"R","e","s","u","m","e",":">>,
     <<"C","o","m","p","a","n","y",":">>,
     <<"E","d","u","c","a","t","i","o","n">>,
     <<"T","e","c","h","n","i","c","a","l"," ","S","k","i","l","l","s">>,
     <<"E","x","p","e","r","i","e","n","c","e">>,
     <<"P","r","o","j","e","c","t","s">>,
     <<"E","x","t","r","a","-","C","u","r","r","i","c","u","l","a","r"," ","A","c","t","i","v","i","t","i","e","s">>,
     <<"A","b","o","u","t"," ","M","e">> >>

resumeSections ==
  << <<"F","e","l","i","x"," ","N","g">>,
     <<"+","1"," ","(","7","7","8",")">>,
     <<"F","e","l","i","x","N","g","1","0","2","2","@","g","m","a","i","l",".","c","o","m">>,
     <<"U","n","i","v","e","r","s","i","t","y"," ","o","f"," ","B","r","i","t","i","s","h"," ","C","o","l","u","m","b","i","a">>,
     <<"B","a","c","h","e","l","o","r","s"," ","i","n"," ","C","o","m","p","u","t","e","r"," ","S","c","i","e","n","c","e">>,
     <<"L","a","n","g","u","a","g","e","s",":">>,
     <<"F","r","a","m","e","w","o","r","k","s",":">>,
     <<"D","e","v","e","l","o","p","e","r"," ","T","o","o","l","s",":">>,
     <<"R","e","s","e","a","r","c","h"," ","A","s","s","i","s","t","a","n","t">>,
     <<"I","T"," ","D","i","r","e","c","t","o","r">>,
     <<"J","o","b","M","a","t","c","h"," ","A","I">>,
     <<"P","r","e","s","e","n","t","l","y">>,
     <<"S","c","h","e","d","u","l","i","i">> >>

\* the words of the closing patterns (lines 997-998, 1059-1062), in lower case
closingWords ==
  << <<"s","i","n","c","e","r","e","l","y">>,
     <<"b","e","s","t"," ","r","e","g","a","r","d","s">>,
     <<"r","e","g","a","r","d","s">>,
     <<"y","o","u","r","s"," ","s","i","n","c","e","r","e","l","y">>,
     <<"y","o","u","r","s"," ","t","r","u","l","y">> >>

\* Number of words of a signature name that make up s from position a to its
\* end (words of [A-Z][a-z]+ separated by white space, white space after the
\* last one allowed), -1 when the rest is no such name or has more than three
\* words.  Under the i flag the word is any two or more letters.
RECURSIVE nameWords(_, _, _, _)
nameWords(s, a, ignoreCase, count) ==
  LET n == Len(s)
      isLower(ch) == \E k \in DOMAIN LowerChars : ch = LowerChars[k]
      isUpper(ch) == \E k \in DOMAIN UpperChars : ch = UpperChars[k]
      gaps == {j \in a..(n + 1) : j = n + 1 \/ s[j] \in WhiteSpace}
      e == CHOOSE i \in gaps : \A j \in gaps : i <= j
      isName == /\ e - a >= 2
                /\ IF ignoreCase THEN isLower(toLowerChar(s[a])) ELSE isUpper(s[a])
                /\ \A j \in (a + 1)..(e - 1) :
                     IF ignoreCase THEN isLower(toLowerChar(s[j])) ELSE isLower(s[j])
  IN  IF a > n THEN count
      ELSE IF count = 3 \/ ~isName THEN -1
      ELSE nameWords(s, skipSpace(s, e), ignoreCase, count + 1)

\* Index (0-based) where a closing pattern matches up to the end of s, -1
\* when it does not match:
\*   [\n\s*](Sincerely|Best regards|Regards|Yours sincerely|Yours truly),?
\*   [\s*\n\s*[A-Z][a-z]+(?:\s+[A-Z][a-z]+){0,2}]\s*$   under the i flag,
\* lineBreak telling whether the pattern begins with \n\s*, name whether it
\* holds the signature name, words the alternatives in lower case
closingIndex(s, words, lineBreak, name) ==
  LET low == toLowerCase(s)
      n == Len(s)
      matchesAt(i) ==
        LET j == IF lineBreak THEN skipSpace(s, i + 1) ELSE i
            after(w) == LET k == j + Len(words[w])
                        IN  IF k <= n /\ s[k] = "," THEN k + 1 ELSE k
            tail(k) == IF name
                       THEN /\ \E m \in k..(skipSpace(s, k) - 1) : s[m] = "\n"
                            /\ nameWords(s, skipSpace(s, k), TRUE, 0) >= 1
                       ELSE skipSpace(s, k) > n
        IN  /\ lineBreak => s[i] = "\n"
            /\ j <= n
            /\ low[j] \in {words[w][1] : w \in DOMAIN words}
            /\ \E w \in DOMAIN words :
                 /\ j + Len(words[w]) - 1 <= n
                 /\ SubSeq(low, j, j + Len(words[w]) - 1) = words[w]
                 /\ tail(after(w))
      found == {i \in 1..n : matchesAt(i)}
  IN  IF found = {} THEN -1
      ELSE (CHOOSE i \in found : \A j \in found : i <= j) - 1

\* Index (0-based) of the match of nameAtEndPattern,
\* /\n\s*[A-Z][a-z]+(?:\s+[A-Z][a-z]+){1,2}\s*$/, -1 when there is none
nameAtEndIndex(s) ==
  LET found == {i \in 1..Len(s) :
                  s[i] = "\n" /\ nameWords(s, skipSpace(s, i + 1), FALSE, 0) >= 2}
  IN  IF found = {} THEN -1
      ELSE (CHOOSE i \in found : \A j \in found : i <= j) - 1

\* the loop over resumeSections from section k on; letterStart and
\* lastClosingIdx are computed before the loop and not again
RECURSIVE removeResumeSections(_, _, _, _, _)
removeResumeSections(s, k, letterStart, lastClosingIdx, letterEnd) ==
  IF k > Len(resumeSections) \/ s = <<>>
  THEN [text |-> s, letterEnd |-> letterEnd]
  ELSE LET sectionIdx == indexOf(s, resumeSections[k], 0)
           beforeSection == trim(SubSeq(s, letterStart + 1, sectionIdx))
           nextDear == indexOf(toLowerCase(s), <<"d","e","a","r">>, sectionIdx)
       IN  IF sectionIdx = -1
           THEN removeResumeSections(s, k + 1, letterStart, lastClosingIdx, letterEnd)
           ELSE IF lastClosingIdx # -1 /\ sectionIdx > lastClosingIdx
           THEN removeResumeSections(s, k + 1, letterStart, lastClosingIdx,
                                     Min(letterEnd, sectionIdx))
           ELSE IF /\ sectionIdx > letterStart /\ sectionIdx < letterStart + 100
                   /\ Len(beforeSection) < 50
                   /\ nextDear > sectionIdx
           THEN removeResumeSections(SubSeq(s, nextDear + 1, Len(s)), k + 1,
                                     letterStart, lastClosingIdx, letterEnd)
           ELSE removeResumeSections(s, k + 1, letterStart, lastClosingIdx, letterEnd)

fallbackTemplate ==
  <<"D","e","a","r"," ","H","i","r","i","n","g"," ","M","a","n","a","g","e",
    "r",",","\n","\n","I"," ","a","m"," ","w","r","i","t","i","n","g"," ",
    "t","o"," ","e","x","p","r","e","s","s"," ","m","y"," ","s","t","r","o",
    "n","g"," ","i","n","t","e","r","e","s","t"," ","i","n"," ","t","h","e",
    " ","p","o","s","i","t","i","o","n","."," ","B","a","s","e","d"," ","o",
    "n"," ","t","h","e"," ","j","o","b"," ","d","e","s","c","r","i","p","t",
    "i","o","n",","," ","I"," ","b","e","l","i","e","v","e"," ","m","y"," ",
    "b","a","c","k","g","r","o","u","n","d"," ","a","n","d"," ","s","k","i",
    "l","l","s"," ","a","l","i","g","n"," ","w","e","l","l"," ","w","i","t",
    "h"," ","y","o","u","r"," ","r","e","q","u","i","r","e","m","e","n","t",
    "s",".","\n","\n","M","y"," ","e","x","p","e","r","i","e","n","c","e",
    " ","i","n","c","l","u","d","e","s"," ","r","e","l","e","v","a","n","t",
    " ","t","e","c","h","n","i","c","a","l"," ","s","k","i","l","l","s"," ",
    "a","n","d"," ","p","r","o","f","e","s","s","i","o","n","a","l"," ","a",
    "c","h","i","e","v","e","m","e","n","t","s"," ","t","h","a","t"," ","w",
    "o","u","l","d"," ","m","a","k","e"," ","m","e"," ","a"," ","v","a","l",
    "u","a","b","l","e"," ","a","d","d","i","t","i","o","n"," ","t","o"," ",
    "y","o","u","r"," ","t","e","a","m","."," ","I"," ","a","m"," ","e","x",
    "c","i","t","e","d"," ","a","b","o","u","t"," ","t","h","e"," ","o","p",
    "p","o","r","t","u","n","i","t","y"," ","t","o"," ","c","o","n","t","r",
    "i","b","u","t","e"," ","t","o"," ","y","o","u","r"," ","o","r","g","a",
    "n","i","z","a","t","i","o","n",".","\n","\n","T","h","a","n","k"," ",
    "y","o","u"," ","f","o","r"," ","c","o","n","s","i","d","e","r","i","n",
    "g"," ","m","y"," ","a","p","p","l","i","c","a","t","i","o","n","."," ",
    "I"," ","l","o","o","k"," ","f","o","r","w","a","r","d"," ","t","o"," ",
    "d","i","s","c","u","s","s","i","n","g"," ","h","o","w"," ","m","y"," ",
    "q","u","a","l","i","f","i","c","a","t","i","o","n","s"," ","c","a","n",
    " ","b","e","n","e","f","i","t"," ","y","o","u","r"," ","t","e","a","m",
    ".","\n","\n","S","i","n","c","e","r","e","l","y",",","\n","[","Y","o",
    "u","r"," ","N","a","m","e","]">>

\* One statement group of the cleanup applied to the text s, the groups
\* numbered in the order of the code
cleanupStep(s, step) ==
  LET Dear == <<"d","e","a","r">>
      low == toLowerCase(s)
      dearIdx == indexOf(low, Dear, 0)
      rest(start) == SubSeq(s, Min(start, Len(s)) + 1, Len(s))
      cut(x, idx) == IF idx = -1 THEN x ELSE SubSeq(x, 1, idx)
      thanks == <<"t","h","a","n","k"," ","y","o","u"," ","f","o","r"," ",
                  "c","o","n","s","i","d","e","r","i","n","g"," ","m","y"," ",
                  "a","p","p","l","i","c","a","t","i","o","n">>
      thanksMatches ==
        \E i \in 0..(Len(s) - Len(thanks)) :
          /\ low[i + 1] = "t"
          /\ SubSeq(low, i + 1, i + Len(thanks)) = thanks
          /\ \A j \in (i + Len(thanks) + 1)..Len(s) : s[j] # "."
      \* each of the three patterns of lines 996-1000 ends in $, so a match
      \* ends where the text ends
      lastClosingIdx ==
        IF \/ closingIndex(s, SubSeq(closingWords, 1, 4), FALSE, FALSE) # -1
           \/ thanksMatches
        THEN Len(s)
        ELSE -1
      sections == removeResumeSections(s, 1, dearIdx, lastClosingIdx, Len(s))
      unsigned1 == cut(s, closingIndex(s, closingWords, TRUE, TRUE))
      unsigned2 == cut(unsigned1, closingIndex(unsigned1, closingWords, TRUE, FALSE))
      unsigned3 == cut(unsigned2, closingIndex(unsigned2, closingWords, FALSE, TRUE))
  IN  CASE step = 1 -> trim(s)                                  \* line 860
        [] step = 2 -> stripQuotes(s)                           \* line 863
        [] step = 3 -> removeFencedBlocks(s)                    \* line 866
        [] step = 4 -> removeOpeningFences(s, TRUE)             \* line 867
        [] step = 5 -> removeClosingFences(s)                   \* line 868
        [] step = 6 ->                                          \* lines 871-878
             IF \/ includes(s, <<"\"","c","o","v","e","r","_","l","e","t","t","e","r","\"">>)
                \/ includes(s, <<"\"","t","e","x","t","\"">>)
             THEN parseCoverLetter(s)
             ELSE s
        [] step = 7 ->                                          \* lines 881-895
             IF dearIdx = -1 THEN s
             ELSE removeGreetings(
                    SubSeq(rest(dearIdx), greetingLength(rest(dearIdx), 1) + 1,
                           Len(rest(dearIdx))), 2)
        [] step = 8 -> removePromptMarkers(s, 1)                \* lines 921-943
        [] step = 9 ->                                          \* lines 959-970
             IF /\ dearIdx # -1
                /\ \E k \in DOMAIN contentMarkers :
                     /\ indexOf(s, contentMarkers[k], 0) # -1
                     /\ indexOf(s, contentMarkers[k], 0) < dearIdx
             THEN rest(dearIdx)
             ELSE s
        [] step = 10 ->                                         \* lines 991-1041
             IF dearIdx = -1 THEN s
             ELSE IF sections.letterEnd < Len(sections.text)
             THEN trim(SubSeq(sections.text, dearIdx + 1, sections.letterEnd))
             ELSE trim(SubSeq(sections.text,
                              Min(dearIdx, Len(sections.text)) + 1,
                              Len(sections.text)))
        [] step = 11 ->                                         \* lines 1044-1055
             removeGreetings(removeGreetings(removeGreetings(s, 1), 2), 3)
        [] step = 12 ->                                         \* lines 1058-1067
             cut(unsigned3, closingIndex(unsigned3, closingWords, FALSE, FALSE))
        [] step = 13 -> cut(s, nameAtEndIndex(s))               \* lines 1070-1071
        [] step = 14 ->                                         \* lines 1075-1088
             IF dearIdx = -1 \/ indexOf(low, Dear, dearIdx + 1) = -1 THEN s
             ELSE trim(SubSeq(s, 1, indexOf(low, Dear, dearIdx + 1)))

\* the statement groups from number step on, in order; none of them changes
\* an empty text
RECURSIVE cleanupFrom(_, _)
cleanupFrom(s, step) ==
  IF step > 14 \/ s = <<>> THEN s
  ELSE cleanupFrom(cleanupStep(s, step), step + 1)

\* The cleanup of generateCoverLetter: from the text of the stream to the
\* text that is returned (lines 859-1118); the length is compared before
\* the last trim
cleanup(text) ==
  LET cleaned == cleanupFrom(text, 1)
  IN  trim(IF Len(cleaned) < minCoverLetterLength THEN fallbackTemplate
           ELSE cleaned)

\* The texts a stream event can carry in this model: a fenced block, a short
\* answer after a run of spaces, the two greetings, a letter body, a closing
\* with a signature, leaked prompt text, and the body as a JSON document
LetterPieces ==
  LET body ==
      <<"I"," ","a","m"," ","w","r","i","t","i","n","g"," ","t","o"," ","e",
        "x","p","r","e","s","s"," ","m","y"," ","s","t","r","o","n","g"," ",
        "i","n","t","e","r","e","s","t"," ","i","n"," ","t","h","e"," ","p",
        "o","s","i","t","i","o","n","."," ","B","a","s","e","d"," ","o","n",
        " ","t","h","e"," ","j","o","b"," ","d","e","s","c","r","i","p","t",
        "i","o","n",","," ","I"," ","b","e","l","i","e","v","e"," ","m","y",
        " ","b","a","c","k","g","r","o","u","n","d"," ","a","n","d"," ","s",
        "k","i","l","l","s"," ","a","l","i","g","n"," ","w","e","l","l"," ",
        "w","i","t","h"," ","y","o","u","r"," ","r","e","q","u","i","r","e",
        "m","e","n","t","s",".">>
  IN  { Fence \o <<"x">> \o Fence,
        [i \in 1..98 |-> " "] \o <<"H","i">>,
        <<"D","e","a","r"," ","H","i","r","i","n","g"," ","M","a","n","a",
          "g","e","r",",","\n","\n">>,
        <<"D","e","a","r"," ","T","e","a","m","\n","\n">>,
        body,
        <<"\n","\n","S","i","n","c","e","r","e","l","y",",","\n","J","a",
          "n","e"," ","D","o","e">>,
        <<"J","o","b"," ","D","e","s","c","r","i","p","t","i","o","n",":",
          "\n","B","a","c","k","e","n","d"," ","E","n","g","i","n","e","e",
          "r","\n","\n">>,
        <<"{","\"","c","o","v","e","r","_","l","e","t","t","e","r","\"",":",
          " ","\"">> \o body \o <<"\"","}">> }

\* resultText: the pieces of the stream joined in arrival order
RECURSIVE joined(_)
joined(pieces) ==
  IF pieces = <<>> THEN <<>> ELSE Head(pieces) \o joined(Tail(pieces))

\* lines 753-798: the context and the provider are created and the task is
\* started; a failure leaves through the outer catch, which throws it on
StartLetter ==
  /\ pcLetter = "idle"
  /\ \E contextThrows \in BOOLEAN :
       IF contextThrows
       THEN pcLetter' = "thrown" /\ UNCHANGED env
       ELSE /\ env' = getProviderFromEnv(env).env
            /\ pcLetter' = IF getProviderFromEnv(env).throws THEN "thrown"
                           ELSE "stream"
  /\ UNCHANGED <<letterText, coverLetter, jdText, resumeText, pc, resultText,
                 jsonStr, outcome, parsedJson, result, site, thrown,
                 fallbackSeen, arrived, searchVars, strengthVars>>

\* lines 799-812: a text event adds its content (nothing when it is absent),
\* a message event the text of its text blocks
OnLetterEvent ==
  /\ pcLetter = "stream"
  /\ \E n \in 0..MaxPieces : \E added \in [1..n -> LetterPieces] :
       /\ Len(letterText) + Len(added) <= MaxPieces
       /\ letterText' = letterText \o added
  /\ UNCHANGED <<pcLetter, coverLetter, analysisVars, searchVars, strengthVars>>

\* lines 813-845 and 1119-1126: an error event or a failing provider call
\* throws; the inner catch and the outer catch throw the error on
LetterFails ==
  /\ pcLetter = "stream"
  /\ pcLetter' = "thrown"
  /\ UNCHANGED <<letterText, coverLetter, analysisVars, searchVars, strengthVars>>

\* lines 859-1118: the stream has ended, the text is cleaned and returned
LetterComplete ==
  /\ pcLetter = "stream"
  /\ coverLetter' = cleanup(joined(letterText))
  /\ pcLetter' = "returned"
  /\ UNCHANGED <<letterText, analysisVars, searchVars, strengthVars>>

LetterInit ==
  /\ env \in Environments
  /\ jdText = <<>>
  /\ resumeText = <<>>
  /\ pc = "idle"
  /\ resultText = <<>>
  /\ jsonStr = "none"
  /\ outcome = "none"
  /\ parsedJson = NoObject
  /\ result = NoResult
  /\ site = "none"
  /\ thrown = FALSE
  /\ fallbackSeen = {}
  /\ arrived = <<>>
  /\ SearchIdle
  /\ LetterIdle
  /\ StrengthIdle

LetterNext ==
  \/ StartLetter
  \/ OnLetterEvent
  \/ LetterFails
  \/ LetterComplete

LetterSpec == LetterInit /\ [][LetterNext]_vars

(***************************************************************************)
(* Properties.                                                             *)
(***************************************************************************)
returned == pc = "done" /\ ~thrown
FallbackSites == {"fallback", "catch"}
FailedOutcomes ==
  ProviderErrors \cup {"noCredential", "contextError", "errorEvent"}

C2_ScoreIntegerInRange ==
  returned =>
    /\ ~result.score.nan
    /\ result.score.tenths % 10 = 0
    /\ 0 <= result.score.tenths /\ result.score.tenths <= 1000

\* C3: no returned matched skill equals a returned missing skill, letter
\* case ignored.
C3_Disjoint ==
  returned =>
    \A i \in DOMAIN result.matched_skills :
      \A j \in DOMAIN result.missing_skills :
        toLowerCase(result.matched_skills[i]) # toLowerCase(result.missing_skills[j])

\* C4: every returned matched skill occurs in the job text and in the resume
\* text, and every returned missing skill occurs in the job text and not in
\* the resume text, letter case ignored.
C4_Presence ==
  returned =>
    LET jd == toLowerCase(jdText)
        resume == toLowerCase(resumeText)
    IN  /\ \A i \in DOMAIN result.matched_skills :
             /\ includes(jd, toLowerCase(result.matched_skills[i]))
             /\ includes(resume, toLowerCase(result.matched_skills[i]))
        /\ \A j \in DOMAIN result.missing_skills :
             /\ includes(jd, toLowerCase(result.missing_skills[j]))
             /\ ~includes(resume, toLowerCase(result.missing_skills[j]))

\* C5: correcting the corrected skill lists again, with the same texts,
\* changes neither list.
C5_Idempotent ==
  (returned /\ site = "model") =>
    correctSkills(result.matched_skills, result.missing_skills, jdText, resumeText)
      = [matched_skills |-> result.matched_skills,
         missing_skills |-> result.missing_skills]

\* the elements of a sequence
Range(s) == {s[i] : i \in DOMAIN s}
\* the vocabulary entries occurring in a text, letter case ignored
VocabularyIn(text) ==
  {w \in Range(candidates) : includes(toLowerCase(text), w)}

\* C6: a fallback result has matched = jobSkills \cap resumeSkills, missing =
\* jobSkills \ matched and score = round(100 * |matched| / max(1, |jobSkills|)),
\* which is 0 when the job text holds no vocabulary entry.
C6_FallbackFormula ==
  (returned /\ site \in FallbackSites) =>
    LET jobSkills == VocabularyIn(jdText)
        resumeSkills == VocabularyIn(resumeText)
        matched == jobSkills \cap resumeSkills
        n == IF jobSkills = {} THEN 1 ELSE Cardinality(jobSkills)
        k == result.score.tenths \div 10
    IN  /\ Range(result.matched_skills) = matched
        /\ Len(result.matched_skills) = Cardinality(matched)
        /\ Range(result.missing_skills) = jobSkills \ matched
        /\ Len(result.missing_skills) = Cardinality(jobSkills \ matched)
        /\ ~result.score.nan /\ result.score.tenths = 10 * k
        \* k is the integer nearest to 100 * |matched| / n, halves going up
        /\ 2 * n * k <= 200 * Cardinality(matched) + n
        /\ 200 * Cardinality(matched) + n < 2 * n * (k + 1)
        /\ jobSkills = {} => k = 0

C6_Witness ==
  /\ returned /\ site = "fallback"
  /\ Len(result.matched_skills) = 2
  /\ Len(result.missing_skills) = 1
  /\ result.score = Num(670)

\* C7: the fallback analysis of "Senior engineer needs Python, Docker"
\* against "5 years Python experience" has matched ["python"], missing
\* ["docker"] and score 50.
C7_Scenario ==
  (returned /\ site \in FallbackSites
     /\ jdText = JdScenario /\ resumeText = ResumeScenario) =>
    /\ result.matched_skills = << <<"p","y","t","h","o","n">> >>
    /\ result.missing_skills = << <<"d","o","c","k","e","r">> >>
    /\ result.score = Num(500)

\* C8: all fallback results returned for the same two texts are equal,
\* whichever site built them and whatever the credentials, the failure and
\* the earlier requests were.
C8_FallbackDeterministic ==
  \A a \in fallbackSeen : \A b \in fallbackSeen : a.result = b.result

C8_Witness ==
  /\ returned /\ site = "catch"
  /\ \E a \in fallbackSeen : a.site = "fallback"
  /\ \E b \in fallbackSeen : b.site = "catch"
  /\ Len(result.missing_skills) > 3

\* the object of the clamp scenario:
\* {"score": 140, "matched_skills": ["Python"], "missing_skills": ["Python"]}
ClampScenarioObject ==
  [reply |-> "absent", score |-> JsonNumber(1400),
   matched_skills |-> SkillArray(<<SkPython>>),
   missing_skills |-> SkillArray(<<SkPython>>),
   suggestions |-> [t |-> "absent", v |-> <<>>],
   short_summary |-> [t |-> "absent", v |-> <<>>]]

ClampScenarioOutcome ==
  /\ result.score = Num(1000)
  /\ ~arrayIncludes(result.missing_skills, SkPython)
  /\ arrayIncludes(result.matched_skills, SkPython)

\* C9 as stated: when the model returns the scenario object and the resume
\* holds "Python", the result has score 100, "Python" is not missing and
\* "Python" is still matched.
C9_ClampScenarioAnyJob ==
  (returned /\ parsedJson = ClampScenarioObject /\ includes(resumeText, SkPython))
    => ClampScenarioOutcome

\* C9 amended: the same, when the job text holds "python" too (letter case
\* ignored).
C9_ClampScenario ==
  (returned /\ parsedJson = ClampScenarioObject /\ includes(resumeText, SkPython)
     /\ includes(toLowerCase(jdText), toLowerCase(SkPython)))
    => (site = "model" /\ ClampScenarioOutcome)

C9_Witness ==
  /\ returned /\ parsedJson = ClampScenarioObject
  /\ includes(resumeText, SkPython)
  /\ includes(toLowerCase(jdText), toLowerCase(SkPython))
  /\ site = "model"
  /\ result.matched_skills = <<SkPython>>

\* C10 as stated: every returned result has a suggestions list of 1 to 5
\* strings and a string short_summary.
C10_WellFormedAlways ==
  returned =>
    /\ result.suggestions.t = "array"
    /\ Len(result.suggestions.v) \in 1..5
    /\ result.short_summary.t = "string"

\* C10 amended: every returned result carries a score and the two skill
\* lists; a fallback result has a suggestions list of 1 to 5 strings and a
\* string short_summary; a model-derived result has the suggestions and the
\* short_summary of the model's object, unchecked.
C10_WellFormed ==
  returned =>
    /\ site \in FallbackSites =>
         /\ result.suggestions.t = "array"
         /\ Len(result.suggestions.v) \in 1..5
         /\ result.short_summary.t = "string"
         /\ ~result.score.nan
    /\ site = "model" =>
         /\ parsedJson.score.t # "absent"
         /\ parsedJson.matched_skills.t = "array"
         /\ parsedJson.missing_skills.t = "array"
         /\ result.suggestions = parsedJson.suggestions
         /\ result.short_summary = parsedJson.short_summary

C10_Witness ==
  /\ returned /\ site = "fallback"
  /\ result.matched_skills = <<>> /\ result.missing_skills = <<>>
  /\ Len(result.suggestions.v) = 1

(***************************************************************************)
(* Properties of the job search.                                           *)
(***************************************************************************)
\* searchAndRankJobs has returned
ranked == pcSearch = "done"
\* the listings of the mock set
isMockListing(r) ==
  \E k \in 1..8 : r = baseJobs(locationSuffix(preferences.location))[k]

\* C11: searchJobs returns mock listings only when no search credential is
\* configured; with a credential, a search call that throws, answers with a
\* status that is not OK or yields no result makes searchJobs return the
\* empty list.
C11_MockOnlyUnconfigured ==
  pcSearch \in {"filter", "score", "done"} =>
    /\ (\E k \in DOMAIN searchResults : isMockListing(searchResults[k]))
         => ~TAVILY_API_KEY
    /\ ( /\ TAVILY_API_KEY
         /\ \/ fetched \in {"throws", "notOk"}
            \/ fetched = "ok" /\ response = <<>> )
         => searchResults = <<>>
C11_Witness ==
  /\ pcSearch = "filter"
  /\ TAVILY_API_KEY
  /\ fetched = "throws"
  /\ searchResults = <<>>

\* the titles of a list of listings or jobs
titles(list) == {list[k].title : k \in DOMAIN list}

\* the mock listings searchJobs returns for the preferences, [] when the mock
\* lookup throws
mockListings ==
  getMockJobResults(searchQuery(preferences), searchLimit,
                    preferences.location).results

\* C12 as stated: without a search credential the returned jobs are exactly
\* the mock listings selected by the role, each with the url "#".
C12_ExactMockSet ==
  (ranked /\ ~TAVILY_API_KEY) =>
    /\ titles(searchReturn.jobs) = titles(mockListings)
    /\ \A k \in DOMAIN searchReturn.jobs : searchReturn.jobs[k].url = Hash

\* C12 amended: without a search credential the returned jobs are made of
\* the first three mock listings selected by the role and the keywords (of
\* all of them when they are fewer), each with the url "#", and totalFound
\* is the number of listings selected.
C12_MockTopThree ==
  (ranked /\ ~TAVILY_API_KEY) =>
    /\ titles(searchReturn.jobs) = titles(slice(mockListings, 0, 3))
    /\ Len(searchReturn.jobs) = Min(3, Len(mockListings))
    /\ \A k \in DOMAIN searchReturn.jobs : searchReturn.jobs[k].url = Hash
    /\ searchReturn.totalFound = Len(mockListings)
C12_Witness ==
  /\ ranked
  /\ ~TAVILY_API_KEY
  /\ Len(searchReturn.jobs) = 3
  /\ searchReturn.totalFound = 8
  /\ \A k \in 1..3 : searchReturn.jobs[k].url = Hash

\* C13: no returned job has a url that holds the name of a job board,
\* letter case ignored, whatever its top-level domain, also when the search
\* stage returned its top results unfiltered.
C13_NoJobBoardUrl ==
  \A k \in DOMAIN searchReturn.jobs :
    \A n \in DOMAIN jobBoardNames :
      ~includes(toLowerCase(searchReturn.jobs[k].url), jobBoardNames[n])
C13_Witness ==
  /\ ranked
  /\ TAVILY_API_KEY
  /\ searchReturn.jobs # <<>>
  /\ \E k \in DOMAIN searchResults :
       includes(toLowerCase(searchResults[k].url),
                <<"i","n","d","e","e","d",".","c","o","m">>)

\* the place in filteredResults of the candidate a returned job was made of
candidate(job) ==
  CHOOSE i \in DOMAIN filteredResults :
    filteredResults[i].title = job.title /\ filteredResults[i].url = job.url

\* C14: the returned jobs are in non-increasing order of score, and jobs of
\* equal score are in the order of their candidates in the filtered results.
C14_SortedStable ==
  ranked =>
    \A a, b \in DOMAIN searchReturn.jobs :
      a < b =>
        /\ scoreOrZero(searchReturn.jobs[a]) >= scoreOrZero(searchReturn.jobs[b])
        /\ scoreOrZero(searchReturn.jobs[a]) = scoreOrZero(searchReturn.jobs[b])
             => candidate(searchReturn.jobs[a]) < candidate(searchReturn.jobs[b])
C14_Witness ==
  /\ ranked
  /\ Len(searchReturn.jobs) = 3
  /\ candidate(searchReturn.jobs[1]) = 3
  /\ scoreOrZero(searchReturn.jobs[2]) = scoreOrZero(searchReturn.jobs[3])
  /\ candidate(searchReturn.jobs[2]) = 1

\* C15: a returned result has at most 3 jobs, and totalFound is the number
\* of results the search returned, counted before the job-board filter and
\* the truncation to three, so it is never smaller than the number of jobs;
\* on the error path both are 0.
C15_AtMostThree ==
  ranked =>
    /\ Len(searchReturn.jobs) <= 3
    /\ searchReturn.totalFound = Len(searchResults)
    /\ searchReturn.totalFound >= Len(searchReturn.jobs)
C15_Witness ==
  /\ ranked
  /\ TAVILY_API_KEY
  /\ Len(searchReturn.jobs) = 3
  /\ searchReturn.totalFound = 4

\* C16: a candidate whose scoring failed is in the output with score 0 and
\* no match detail, the candidates after it are scored, and the output
\* holds one job for each of the first three candidates left by the
\* job-board filter.
C16_FailedKept ==
  ranked =>
    /\ Len(searchReturn.jobs) = Min(3, Len(filteredResults))
    /\ \A i \in 1..Min(3, Len(filteredResults)) :
         \E k \in DOMAIN searchReturn.jobs :
           /\ candidate(searchReturn.jobs[k]) = i
           /\ IF filteredResults[i].title.t = "string"
              THEN "matchDetails" \in DOMAIN searchReturn.jobs[k]
              ELSE /\ searchReturn.jobs[k].score = Num(0)
                   /\ "matchDetails" \notin DOMAIN searchReturn.jobs[k]
C16_Witness ==
  /\ ranked
  /\ \E k, m \in DOMAIN searchReturn.jobs :
       /\ "matchDetails" \notin DOMAIN searchReturn.jobs[k]
       /\ "matchDetails" \in DOMAIN searchReturn.jobs[m]
       /\ candidate(searchReturn.jobs[k]) < candidate(searchReturn.jobs[m])
       /\ searchReturn.jobs[m].score # Num(0)

\* C17: the searchQuery of the returned result is the query searchJobs built
\* for the search backend.
C17_ReturnsEffectiveQuery ==
  ranked => searchReturn.searchQuery = backendQuery

\* C18: no step of an analysis operation writes the process environment:
\* the environment after the step is the environment before it.
C18_EnvironmentReadOnly == [][env' = env]_vars

letterReturned == pcLetter = "returned"

\* C19: generateCoverLetter never returns a text shorter than 100
\* characters: a cleaned text that is too short is replaced by the generic
\* template, and a cleaned text that is returned still has 100 characters
\* or more after the last trim.
C19_NeverShort ==
  letterReturned => Len(coverLetter) >= minCoverLetterLength

\* C20: the cleanup is idempotent: a text it returned, the generic template
\* included, comes back unchanged when it goes through the cleanup again.
C20_CleanupIdempotent ==
  letterReturned => cleanup(coverLetter) = coverLetter

\* C21: the text generateCoverLetter returns is body text only: on no path
\* does it begin with a salutation line, "Dear" followed by a name and a
\* comma on the same line.
C21_NoSalutation ==
  letterReturned => greetingLength(coverLetter, 3) = 0

(***************************************************************************)
(* analyzeResumeStrength, src/unnamed/part_006 lines 510-735.  The text    *)
(* of the stream is kept as its pieces: "prose", "object" (the JSON text   *)
(* of an object without nested braces), "brokenObject" (a brace span       *)
(* JSON.parse rejects) and "fencedObject" (an "object" inside a fenced     *)
(* code block).                                                            *)
(***************************************************************************)
StrengthPieces == {"prose", "object", "brokenObject", "fencedObject"}

\* the objects an "object" piece may parse to
StrengthObjects ==
  { [overall_score |-> s,
     ats_score |-> JsonNumber(1200),
     strengths |-> SuggestionArray(<<ModelText>>),
     weaknesses |-> [t |-> "notArray", v |-> <<>>],
     improvement_suggestions |-> [t |-> "absent", v |-> <<>>],
     summary |-> a,
     skill_diversity_score |-> JsonAbsent,
     experience_depth_score |-> JsonNumber(-10)] :
       s \in ScoreValues, a \in {JsonAbsent, JsonWord} }

\* lines 625-633: the span handed to JSON.parse: the object of the first
\* fenced block if there is one, else the first brace span, else "none"
strengthJsonMatch(text) ==
  LET first(kinds) ==
        LET at == {i \in DOMAIN text : text[i] \in kinds}
        IN  IF at = {} THEN "none"
            ELSE text[CHOOSE i \in at : \A j \in at : i <= j]
  IN  IF first({"fencedObject"}) # "none" THEN "object"
      ELSE first({"object", "brokenObject"})

\* lines 641-650: the analysis built from the parsed object
strengthFromParsed(parsed) ==
  LET array(x) == IF x.t = "array" THEN x.v ELSE <<>>
  IN  [overall_score |-> clampScore(parsed.overall_score),
       ats_score |-> clampScore(parsed.ats_score),
       strengths |-> array(parsed.strengths),
       weaknesses |-> array(parsed.weaknesses),
       improvement_suggestions |-> array(parsed.improvement_suggestions),
       summary |-> IF falsy(parsed.summary)
                   THEN Text("Resume analysis completed.", <<>>)
                   ELSE ModelText,
       skill_diversity_score |-> clampScore(parsed.skill_diversity_score),
       experience_depth_score |-> clampScore(parsed.experience_depth_score)]

\* lines 692-728: the analysis built by the local parser; reason is
\* failureReason
fallbackStrength(resume, reason) ==
  LET skillCount == Len(fallbackParseSkills(resume))
      overallScore == Min(100, Max(0, MathRound(skillCount * 100, 20)))
      fallbackSummary ==
        IF reason = ""
        THEN "Basic resume analysis completed. Consider using AI analysis for more detailed insights."
        ELSE IF reason \in {"API quota exceeded", "API rate limit exceeded"}
        THEN "Basic resume analysis completed. AI analysis temporarily unavailable due to high demand. Using fallback parser."
        ELSE IF reason \in {"API authentication failed", "Incorrect API key provided"}
        THEN "Basic resume analysis completed. AI analysis unavailable due to configuration issue. Using fallback parser."
        ELSE "Basic resume analysis completed. AI analysis temporarily unavailable. Using fallback parser."
  IN  [overall_score |-> Num(10 * overallScore),
       ats_score |-> Num(700),
       strengths |->
         IF skillCount > 0
         THEN << Text("technical skills identified", <<skillCount>>) >>
         ELSE << Text("Resume structure present", <<>>) >>,
       weaknesses |->
         IF skillCount < 5
         THEN << Text("Limited technical skills listed", <<>>) >>
         ELSE << Text("Consider adding more quantifiable achievements", <<>>) >>,
       improvement_suggestions |->
         << Text("Add more specific technical skills", <<>>),
            Text("Include quantifiable achievements", <<>>),
            Text("Ensure ATS-friendly formatting", <<>>),
            Text("Highlight relevant experience", <<>>),
            Text("Add industry keywords", <<>>) >>,
       summary |-> Text(fallbackSummary, <<>>),
       skill_diversity_score |-> Num(10 * Min(100, skillCount * 10)),
       experience_depth_score |-> Num(600)]

\* lines 511-516 and 731-734: createZypherContext or getProviderFromEnv
\* throws, and the outer catch throws the error on
StartStrength ==
  /\ pcStrength = "idle"
  /\ \E contextThrows \in BOOLEAN :
       IF contextThrows
       THEN pcStrength' = "thrown" /\ UNCHANGED env
       ELSE /\ env' = getProviderFromEnv(env).env
            /\ pcStrength' = IF getProviderFromEnv(env).throws THEN "thrown"
                             ELSE "stream"
  /\ UNCHANGED <<strengthText, failureReason, strengthReturn, jdText,
                 resumeText, pc, resultText, jsonStr, outcome, parsedJson,
                 result, site, thrown, fallbackSeen, arrived, searchVars,
                 letterVars>>

\* lines 573-582: a text event adds its content (nothing when it is absent),
\* a message event the text of its text blocks
OnStrengthEvent ==
  /\ pcStrength = "stream"
  /\ \E n \in 0..MaxPieces : \E added \in [1..n -> StrengthPieces] :
       /\ Len(strengthText) + Len(added) <= MaxPieces
       /\ strengthText' = strengthText \o added
  /\ UNCHANGED <<pcStrength, failureReason, strengthReturn, analysisVars,
                 searchVars, letterVars>>

\* lines 583-618 and 692-730: an error event ends the loop with the text
\* kept, a failing provider call empties the text; both leave no analysis,
\* and the local parser's analysis is returned
StrengthFails ==
  /\ pcStrength = "stream"
  /\ \E how \in {"errorEvent"} \cup ProviderErrors :
       LET reason ==
             CASE how = "errorEvent" -> "Agent task error"
               [] how = "status429quota" -> "API quota exceeded"
               [] how = "status429" -> "API rate limit exceeded"
               [] how = "status401" -> "API authentication failed"
               [] how = "status500" -> "API error (500)"
               [] OTHER -> "fetch failed"
       IN  /\ failureReason' = reason
           /\ strengthText' = IF how = "errorEvent" THEN strengthText ELSE <<>>
           /\ strengthReturn' = fallbackStrength(resumeText, reason)
  /\ pcStrength' = "returned"
  /\ UNCHANGED <<analysisVars, searchVars, letterVars>>

\* lines 620-730: the stream has ended; the text is parsed, and the local
\* parser's analysis is returned when that yields no analysis
StrengthComplete ==
  /\ pcStrength = "stream"
  /\ \E parsed \in StrengthObjects :
       LET span == strengthJsonMatch(strengthText)
           reason ==
             IF strengthText = <<>> THEN "Empty response from AI"
             ELSE IF span = "none" THEN "No valid JSON found in response"
             ELSE IF span = "brokenObject" THEN "Unexpected token in JSON"
             ELSE IF parsed.overall_score.t = "absent"
             THEN "Invalid JSON structure (missing overall_score)"
             ELSE ""
       IN  /\ failureReason' = reason
           /\ strengthReturn' = IF reason = ""
                                THEN strengthFromParsed(parsed)
                                ELSE fallbackStrength(resumeText, reason)
  /\ pcStrength' = "returned"
  /\ UNCHANGED <<strengthText, analysisVars, searchVars, letterVars>>

StrengthInit ==
  /\ env \in Environments
  /\ jdText = <<>>
  /\ resumeText \in ResumeTexts
  /\ pc = "idle"
  /\ resultText = <<>>
  /\ jsonStr = "none"
  /\ outcome = "none"
  /\ parsedJson = NoObject
  /\ result = NoResult
  /\ site = "none"
  /\ thrown = FALSE
  /\ fallbackSeen = {}
  /\ arrived = <<>>
  /\ SearchIdle
  /\ LetterIdle
  /\ StrengthIdle

StrengthNext ==
  \/ StartStrength
  \/ OnStrengthEvent
  \/ StrengthFails
  \/ StrengthComplete

StrengthSpec == StrengthInit /\ [][StrengthNext]_vars

\* C22: analyzeResumeStrength never throws to its caller, and whenever the
\* AI analysis failed the value it returns is the local parser's fallback
\* analysis.
C22_FallbackInsteadOfThrow ==
  /\ pcStrength # "thrown"
  /\ pcStrength = "returned" /\ failureReason # ""
       => strengthReturn = fallbackStrength(resumeText, failureReason)

\* C23: whenever the stream of analyzeJDResume completed with a text that
\* holds the JSON text of an object (bare or with prose around it), that
\* object is what extraction hands to JSON.parse, so that a schema-valid
\* object yields the returned result; the fallback is left to the cases of
\* a failed call, an empty text, or a text without a usable object.
C23_ObjectInTextIsUsed ==
  [][ ( /\ pc = "extract"
        /\ outcome = "completed"
        /\ \E i \in DOMAIN resultText : resultText[i] = "object" )
      => jsonStr' = "object" ]_vars

\* C24: once an error event has arrived in the stream of analyzeJDResume the
\* stream is not read again, the text received before it is discarded, no
\* span of it reaches JSON.parse, and the call returns the deterministic
\* fallback analysis without throwing.
C24_ErrorEventFallsBack ==
  outcome = "errorEvent" =>
    /\ pc \in {"innerCatch", "extract", "parse", "done"}
    /\ pc \in {"extract", "parse", "done"} => resultText = <<>>
    /\ pc \in {"parse", "done"} => jsonStr = "none"
    /\ pc = "done" =>
         /\ ~thrown
         /\ site = "fallback"
         /\ result = fallbackAnalysis(jdText, resumeText)

\* an error event arrived and the call has returned the fallback analysis
C24_Witness ==
  /\ outcome = "errorEvent"
  /\ pc = "done"
  /\ site = "fallback"
  /\ result.matched_skills # <<>>

\* C25: when the stream of analyzeJDResume has ended without an error event,
\* the text buffer is the concatenation, in arrival order, of the content
\* of the text events and of the text of the text blocks of the message
\* events, in block order; nothing else was added to it.
C25_BufferIsConcatenation ==
  pc = "extract" /\ outcome = "completed" => resultText = arrived

\* the stream ended without an error event after two pieces of text had
\* arrived
C25_Witness ==
  /\ pc = "extract"
  /\ outcome = "completed"
  /\ resultText = <<"object", "prose">>

\* C26: within one searchAndRankJobs call analyzeJDResume is invoked at most
\* three times, each time for a result that passed the job-board filter,
\* the k-th call for the k-th of them, every call finished (its job pushed)
\* before the loop goes on, and never when the search returned nothing or
\* the filter left nothing.
C26_ScoringCalls ==
  /\ Len(scoringCalls) <= maxJobsToAnalyze
  /\ Len(scoringCalls) = Len(jobsWithScores)
  /\ \A k \in DOMAIN scoringCalls :
       /\ k <= Len(filteredResults)
       /\ scoringCalls[k].candidate = filteredResults[k]
       /\ ~isJobBoard(scoringCalls[k].candidate)
       /\ \E n \in DOMAIN searchResults :
            searchResults[n] = scoringCalls[k].candidate
  /\ (searchResults = <<>> \/ filteredResults = <<>>) => scoringCalls = <<>>

\* a search with more than three candidates left by the filter has
\* returned with three analyses made
C26_Witness ==
  /\ pcSearch = "done"
  /\ Len(scoringCalls) = maxJobsToAnalyze
  /\ Len(filteredResults) > maxJobsToAnalyze

\* C27 as stated: a candidate whose page fetch failed is pushed with score 0.
C27_FailedFetchScoresZero ==
  \A k \in DOMAIN scoringCalls :
    scoringCalls[k].fetched /\ scoringCalls[k].fullContent = <<>>
      => jobsWithScores[k].score = Num(0)

\* C27, amended: when the fetch of a candidate's page fails, extractJobContent
\* itself catches the failure and returns the empty text; the round goes on
\* with the content or snippet of the search result, the candidate is pushed
\* with the capped score and the match details of an analysis of that text,
\* and it is among the jobs searchAndRankJobs returns.
C27_FailedFetchUsesSnippet ==
  \A k \in DOMAIN scoringCalls :
    LET r == scoringCalls[k].candidate
        given == orElse(contentOf(r), r.snippet)
        job == jobsWithScores[k]
    IN  scoringCalls[k].fetched /\ scoringCalls[k].fullContent = <<>> =>
          /\ scoringCalls[k].jobDescription = given
          /\ r.title.t = "string" =>
               \E a \in analyzeJDResume(given, resumeText) :
                 /\ job.score = cappedScore(a.score)
                 /\ "matchDetails" \in DOMAIN job
                 /\ job.matchDetails.matched_skills = a.matched_skills
                 /\ job.matchDetails.missing_skills = a.missing_skills
          /\ pcSearch = "done" =>
               \E n \in DOMAIN searchReturn.jobs : searchReturn.jobs[n] = job

\* a search has returned a live result whose page could not be fetched, with
\* a score above 0
C27_Witness ==
  /\ pcSearch = "done"
  /\ \E k \in DOMAIN scoringCalls :
       /\ scoringCalls[k].fetched
       /\ scoringCalls[k].fullContent = <<>>
       /\ scoringCalls[k].candidate.url # Hash
       /\ jobsWithScores[k].score # Num(0)

\* C28: what the live search returns never holds a result of a job-board
\* domain, a search page or an article, also when the posting filter left
\* nothing and the top results are returned in its place.
C28_ExclusionsSurviveDegenerateCase ==
  TAVILY_API_KEY /\ fetched = "ok" =>
    \A n \in DOMAIN searchResults :
      LET r == searchResults[n]
          title == toLowerCase(IF truthy(r.title) THEN r.title.v ELSE <<>>)
          url == toLowerCase(r.url)
          content == substring(toLowerCase(r.content), maxFilterContentLength)
      IN  /\ ~includesSome(url, jobBoardDomains)
          /\ ~isSearchPage(url)
          /\ ~includesSome(title, excludeKeywords)
          /\ ~includesSome(url, excludeKeywords)
          /\ ~includesSome(content, excludeKeywords)

\* C29: in a result built from the model's object, after skill correction,
\* no entry of matched_skills or missing_skills is empty or begins or ends
\* with white space, the entries moved over from missing_skills included.
C29_SkillsTrimmedNonEmpty ==
  returned /\ site = "model" =>
    \A list \in {result.matched_skills, result.missing_skills} :
      \A k \in DOMAIN list : list[k] # <<>> /\ trim(list[k]) = list[k]

\* C30: in every result analyzeJDResume returns, no two entries of
\* matched_skills are equal when letter case is ignored, and no two entries
\* of missing_skills are.
C30_SkillsUniqueIgnoringCase ==
  returned =>
    \A list \in {result.matched_skills, result.missing_skills} :
      \A k \in DOMAIN list : \A m \in DOMAIN list :
        toLowerCase(list[k]) = toLowerCase(list[m]) => k = m
====
